---- MODULE Spec2Model ----
(***************************************************************************)
(* The InvoicePayment escrow contract (src/contracts/InvoicePayment.sol)   *)
(* as a state machine.  One action per external function of the contract;  *)
(* every function is an operator from the current contract state and the   *)
(* call's inputs to the call's outcome (the revert reason or "ok", the     *)
(* storage and the balances after the call, the events emitted), and the   *)
(* action installs that outcome.  A reverted call leaves storage and        *)
(* balances as they were; its revert reason is the outcome's `result`.      *)
(*                                                                         *)
(* EVM semantics the contract relies on:                                    *)
(*  - transactions execute one at a time (every action is atomic);          *)
(*  - a revert undoes every effect of the call, the value sent included;    *)
(*  - the value of a payable call is moved from the sender to the contract  *)
(*    before the function body runs, so address(msg.sender).balance read    *)
(*    in the body is the sender's balance after the value left it;          *)
(*  - a call whose value exceeds the sender's balance cannot be made;       *)
(*  - address.transfer reverts when the contract holds less than the sum    *)
(*    or the recipient refuses it (a contract without a payable receive);   *)
(*  - arithmetic is checked (0.8.28): amounts are bounded by the balances   *)
(*    that paid them, far below 2^256, so no product here overflows;        *)
(*  - gas is not modelled.                                                  *)
(* Time is counted in days (Day == 1); block.timestamp only moves forward.  *)
(***************************************************************************)
EXTENDS Integers, Sequences, FiniteSets, TLC

VARIABLES
  invoices,            \* mapping(uint256 => Invoice), unset keys read as the zero Invoice
  invoiceCount,        \* uint256 invoiceCount
  arbitrator,          \* address arbitrator
  platformFeePercent,  \* uint256 platformFeePercent
  paymentTimeout,      \* uint256 paymentTimeout
  balance,             \* ether balance of every account, the contract's included
  now                  \* block.timestamp

vars == <<invoices, invoiceCount, arbitrator, platformFeePercent,
          paymentTimeout, balance, now>>

-----------------------------------------------------------------------------
(* Bounds of the model and the input sets of the calls.                     *)

MaxInvoices == 2
InitBalance == 150

MsgValues == {0, 30, 75}       \* msg.value of payInvoice
TimePoints == {1, 8}        \* the block timestamps of the run, in days
NewFees == {10, 11}         \* _newFee of setPlatformFeePercent
NewArbitrators == {"owner"}    \* _newArbitrator of setArbitrator

-----------------------------------------------------------------------------
(* Accounts.                                                                *)

owner == "owner"
initialArbitrator == "arbitrator"
platformWallet == "platformWallet"
This == "this"
ZeroAddress == "0x0"

Address == {"owner", "arbitrator", "emitter", "client", "platformWallet"}
\* createInvoice calls: <<msg.sender, _client, _amount>>
CreateInputs ==
  {<<"emitter", "client", 0>>, <<"emitter", "client", 30>>,
   <<"emitter", "client", 75>>, <<"client", "emitter", 30>>}
\* the accounts that refuse an incoming transfer during a call
Refusals == {{}, {"platformWallet"}, {"emitter", "client"}}

Day == 1
NewTimeouts == {0, Day}        \* _newTimeout of setPaymentTimeout

Status == {"Pending", "Paid", "Disputed", "Released", "Validated"}

InvoiceIds == 1 .. MaxInvoices

ZeroInvoice ==
  [invoiceId |-> 0, client |-> ZeroAddress, emitter |-> ZeroAddress,
   amount |-> 0, paymentTimeStamp |-> 0, status |-> "Pending"]

-----------------------------------------------------------------------------
(* Revert reasons, grouped as the specification's error taxonomy.           *)

OnlyClient == "Only client can perform this action"
OnlyEmitter == "Only emitter can perform this action"
OnlyArbitrator == "Only arbitrator can perform this action"
OnlyOwner == "OwnableUnauthorizedAccount"
MustBePending == "Invoice must be pending"
MustBePaid == "invoice must be paid first"
MustBeInProgress == "Payment must be in progress"
NotInDispute == "Invoice is not in dispute"
IncorrectAmount == "Incorrect payment amount"
InsufficientBalance == "Insufficient balance to pay Invoice"
FeeTooHigh == "Fee cannot exceed 0%"
TimeoutTooShort == "Timeout must be at least one day"
TimeoutNotReached == "Timeout not reached"
TransferFailed == "transfer failed"

AuthorizationError == {OnlyClient, OnlyEmitter, OnlyArbitrator, OnlyOwner}
StateConflict == {MustBePending, MustBePaid, MustBeInProgress, NotInDispute}
ValidationError == {IncorrectAmount, FeeTooHigh, TimeoutTooShort}

-----------------------------------------------------------------------------
(* Ether movements.                                                         *)

\* the value of a payable call, moved before the body runs
receiveValue(bal, sender, value) ==
  [bal EXCEPT ![sender] = @ - value, ![This] = @ + value]

\* address.transfer succeeds
canTransfer(bal, to, amount, refusing) ==
  bal[This] >= amount /\ to \notin refusing

\* address.transfer
transfer(bal, to, amount) ==
  [bal EXCEPT ![This] = @ - amount, ![to] = @ + amount]

\* a reverted call: nothing changes, nothing is emitted
Revert(reason) ==
  [result |-> reason, invoices |-> invoices, balance |-> balance, events |-> << >>]

Commit(newInvoices, newBalance, newEvents) ==
  [result |-> "ok", invoices |-> newInvoices, balance |-> newBalance,
   events |-> newEvents]

-----------------------------------------------------------------------------
(* The functions of the contract.                                           *)

\* variant: an overpayment is accepted
exactPaymentOrMore(value, amount) == value >= amount

\* require(msg.value == invoice.amount)
exactPayment(value, amount) == value = amount

\* require(msg.value <= address(msg.sender).balance), read after the value left
senderCanAfford(value, senderBalance) == value <= senderBalance

\* variant: the fee is rounded up
platformFeeRoundedUp(amount, feePercent) == (amount * feePercent + 99) \div 100

\* (invoice.amount * platformFeePercent) / 100
platformFee(amount, feePercent) == (amount * feePercent) \div 100

\* variant: the deadline itself is still too early
timeoutPassed(timestamp, paymentTimeStamp, timeout) ==
  timestamp > paymentTimeStamp + timeout

\* require(block.timestamp >= invoice.paymentTimeStamp + paymentTimeout)
timeoutReached(timestamp, paymentTimeStamp, timeout) ==
  timestamp >= paymentTimeStamp + timeout

\* variant: the counter stays at the last id
createInvoiceSameId(sender, _client, _amount) ==
  LET count == IF invoiceCount = 0 THEN 1 ELSE invoiceCount IN
  [result |-> "ok",
   invoiceCount |-> count,
   invoices |-> [invoices EXCEPT ![count] =
                   [invoiceId |-> count, client |-> _client, emitter |-> sender,
                    amount |-> _amount, paymentTimeStamp |-> 0,
                    status |-> "Pending"]],
   events |-> << [name |-> "InvoiceCreated", invoiceId |-> count,
                  client |-> _client, emitter |-> sender, amount |-> _amount] >>]

\* variant: the caller is recorded as client and the argument as emitter
createInvoiceSwapsParties(sender, _client, _amount) ==
  LET count == invoiceCount + 1 IN
  [result |-> "ok",
   invoiceCount |-> count,
   invoices |-> [invoices EXCEPT ![count] =
                   [invoiceId |-> count, client |-> sender, emitter |-> _client,
                    amount |-> _amount, paymentTimeStamp |-> 0,
                    status |-> "Pending"]],
   events |-> << [name |-> "InvoiceCreated", invoiceId |-> count,
                  client |-> _client, emitter |-> sender, amount |-> _amount] >>]

createInvoice(sender, _client, _amount) ==
  LET count == invoiceCount + 1 IN
  [result |-> "ok",
   invoiceCount |-> count,
   invoices |-> [invoices EXCEPT ![count] =
                   [invoiceId |-> count, client |-> _client, emitter |-> sender,
                    amount |-> _amount, paymentTimeStamp |-> 0,
                    status |-> "Pending"]],
   events |-> << [name |-> "InvoiceCreated", invoiceId |-> count,
                  client |-> _client, emitter |-> sender, amount |-> _amount] >>]

\* variant: the caller is not checked
payInvoiceAnyCaller(_invoiceId, sender, value) ==
  LET invoice == invoices[_invoiceId]
      held == receiveValue(balance, sender, value)
  IN IF invoice.status # "Pending" THEN Revert(MustBePending)
     ELSE IF ~ exactPayment(value, invoice.amount) THEN Revert(IncorrectAmount)
     ELSE IF ~ senderCanAfford(value, held[sender]) THEN Revert(InsufficientBalance)
     ELSE Commit([invoices EXCEPT ![_invoiceId].paymentTimeStamp = now,
                                  ![_invoiceId].status = "Paid"],
                 held,
                 << [name |-> "PaymentMade", invoiceId |-> _invoiceId,
                     amount |-> value] >>)

\* variant: whatever is sent becomes the invoice's amount
payInvoiceSetsAmount(_invoiceId, sender, value) ==
  LET invoice == invoices[_invoiceId]
      held == receiveValue(balance, sender, value)
  IN IF sender # invoice.client THEN Revert(OnlyClient)
     ELSE IF invoice.status # "Pending" THEN Revert(MustBePending)
     ELSE IF ~ senderCanAfford(value, held[sender]) THEN Revert(InsufficientBalance)
     ELSE Commit([invoices EXCEPT ![_invoiceId].amount = value,
                                  ![_invoiceId].paymentTimeStamp = now,
                                  ![_invoiceId].status = "Paid"],
                 held,
                 << [name |-> "PaymentMade", invoiceId |-> _invoiceId,
                     amount |-> value] >>)

\* variant: a settled invoice can be paid again
payInvoiceUnlessEscrowed(_invoiceId, sender, value) ==
  LET invoice == invoices[_invoiceId]
      held == receiveValue(balance, sender, value)
  IN IF sender # invoice.client THEN Revert(OnlyClient)
     ELSE IF invoice.status \in {"Paid", "Disputed"} THEN Revert(MustBePending)
     ELSE IF ~ exactPayment(value, invoice.amount) THEN Revert(IncorrectAmount)
     ELSE IF ~ senderCanAfford(value, held[sender]) THEN Revert(InsufficientBalance)
     ELSE Commit([invoices EXCEPT ![_invoiceId].paymentTimeStamp = now,
                                  ![_invoiceId].status = "Paid"],
                 held,
                 << [name |-> "PaymentMade", invoiceId |-> _invoiceId,
                     amount |-> value] >>)

\* variant: the status and the amount are checked before the caller
payInvoiceStatusFirst(_invoiceId, sender, value) ==
  LET invoice == invoices[_invoiceId]
      held == receiveValue(balance, sender, value)
  IN IF invoice.status # "Pending" THEN Revert(MustBePending)
     ELSE IF ~ exactPayment(value, invoice.amount) THEN Revert(IncorrectAmount)
     ELSE IF sender # invoice.client THEN Revert(OnlyClient)
     ELSE IF ~ senderCanAfford(value, held[sender]) THEN Revert(InsufficientBalance)
     ELSE Commit([invoices EXCEPT ![_invoiceId].paymentTimeStamp = now,
                                  ![_invoiceId].status = "Paid"],
                 held,
                 << [name |-> "PaymentMade", invoiceId |-> _invoiceId,
                     amount |-> value] >>)

payInvoice(_invoiceId, sender, value) ==
  LET invoice == invoices[_invoiceId]
      held == receiveValue(balance, sender, value)
  IN IF sender # invoice.client THEN Revert(OnlyClient)
     ELSE IF invoice.status # "Pending" THEN Revert(MustBePending)
     ELSE IF ~ exactPayment(value, invoice.amount) THEN Revert(IncorrectAmount)
     ELSE IF ~ senderCanAfford(value, held[sender]) THEN Revert(InsufficientBalance)
     ELSE Commit([invoices EXCEPT ![_invoiceId].paymentTimeStamp = now,
                                  ![_invoiceId].status = "Paid"],
                 held,
                 << [name |-> "PaymentMade", invoiceId |-> _invoiceId,
                     amount |-> value] >>)

\* variant: the emitter is paid with an unchecked send
confirmPaymentUncheckedSend(_invoiceId, sender, refusing) ==
  LET invoice == invoices[_invoiceId]
      fee == platformFee(invoice.amount, platformFeePercent)
      amountToEmitter == invoice.amount - fee
      afterFee == transfer(balance, platformWallet, fee)
  IN IF sender # invoice.client THEN Revert(OnlyClient)
     ELSE IF invoice.status # "Paid" THEN Revert(MustBePaid)
     ELSE IF ~ canTransfer(balance, platformWallet, fee, refusing)
       THEN Revert(TransferFailed)
     ELSE Commit([invoices EXCEPT ![_invoiceId].status = "Validated"],
                 IF canTransfer(afterFee, invoice.emitter, amountToEmitter, refusing)
                   THEN transfer(afterFee, invoice.emitter, amountToEmitter)
                   ELSE afterFee,
                 << [name |-> "PaymentConfirmed", invoiceId |-> _invoiceId],
                    [name |-> "PaymentReleased", invoiceId |-> _invoiceId,
                     amount |-> amountToEmitter, fee |-> fee] >>)

\* variant: the client can confirm only once the timeout is reached
confirmPaymentAfterTimeout(_invoiceId, sender, refusing) ==
  LET invoice == invoices[_invoiceId]
      fee == platformFee(invoice.amount, platformFeePercent)
      amountToEmitter == invoice.amount - fee
      afterFee == transfer(balance, platformWallet, fee)
  IN IF sender # invoice.client THEN Revert(OnlyClient)
     ELSE IF invoice.status # "Paid" THEN Revert(MustBePaid)
     ELSE IF ~ timeoutReached(now, invoice.paymentTimeStamp, paymentTimeout)
       THEN Revert(TimeoutNotReached)
     ELSE IF ~ canTransfer(balance, platformWallet, fee, refusing)
       THEN Revert(TransferFailed)
     ELSE IF ~ canTransfer(afterFee, invoice.emitter, amountToEmitter, refusing)
       THEN Revert(TransferFailed)
     ELSE Commit([invoices EXCEPT ![_invoiceId].status = "Validated"],
                 transfer(afterFee, invoice.emitter, amountToEmitter),
                 << [name |-> "PaymentConfirmed", invoiceId |-> _invoiceId],
                    [name |-> "PaymentReleased", invoiceId |-> _invoiceId,
                     amount |-> amountToEmitter, fee |-> fee] >>)

\* variant: the fee is computed from the percentage of the constructor
confirmPaymentInitialFee(_invoiceId, sender, refusing) ==
  LET invoice == invoices[_invoiceId]
      fee == platformFee(invoice.amount, 2)
      amountToEmitter == invoice.amount - fee
      afterFee == transfer(balance, platformWallet, fee)
  IN IF sender # invoice.client THEN Revert(OnlyClient)
     ELSE IF invoice.status # "Paid" THEN Revert(MustBePaid)
     ELSE IF ~ canTransfer(balance, platformWallet, fee, refusing)
       THEN Revert(TransferFailed)
     ELSE IF ~ canTransfer(afterFee, invoice.emitter, amountToEmitter, refusing)
       THEN Revert(TransferFailed)
     ELSE Commit([invoices EXCEPT ![_invoiceId].status = "Validated"],
                 transfer(afterFee, invoice.emitter, amountToEmitter),
                 << [name |-> "PaymentConfirmed", invoiceId |-> _invoiceId],
                    [name |-> "PaymentReleased", invoiceId |-> _invoiceId,
                     amount |-> amountToEmitter, fee |-> fee] >>)

\* variant: the release is announced before the confirmation
confirmPaymentReleasedFirst(_invoiceId, sender, refusing) ==
  LET invoice == invoices[_invoiceId]
      fee == platformFee(invoice.amount, platformFeePercent)
      amountToEmitter == invoice.amount - fee
      afterFee == transfer(balance, platformWallet, fee)
  IN IF sender # invoice.client THEN Revert(OnlyClient)
     ELSE IF invoice.status # "Paid" THEN Revert(MustBePaid)
     ELSE IF ~ canTransfer(balance, platformWallet, fee, refusing)
       THEN Revert(TransferFailed)
     ELSE IF ~ canTransfer(afterFee, invoice.emitter, amountToEmitter, refusing)
       THEN Revert(TransferFailed)
     ELSE Commit([invoices EXCEPT ![_invoiceId].status = "Validated"],
                 transfer(afterFee, invoice.emitter, amountToEmitter),
                 << [name |-> "PaymentReleased", invoiceId |-> _invoiceId,
                     amount |-> amountToEmitter, fee |-> fee],
                    [name |-> "PaymentConfirmed", invoiceId |-> _invoiceId] >>)

confirmPayment(_invoiceId, sender, refusing) ==
  LET invoice == invoices[_invoiceId]
      fee == platformFee(invoice.amount, platformFeePercent)
      amountToEmitter == invoice.amount - fee
      afterFee == transfer(balance, platformWallet, fee)
  IN IF sender # invoice.client THEN Revert(OnlyClient)
     ELSE IF invoice.status # "Paid" THEN Revert(MustBePaid)
     ELSE IF ~ canTransfer(balance, platformWallet, fee, refusing)
       THEN Revert(TransferFailed)
     ELSE IF ~ canTransfer(afterFee, invoice.emitter, amountToEmitter, refusing)
       THEN Revert(TransferFailed)
     ELSE Commit([invoices EXCEPT ![_invoiceId].status = "Validated"],
                 transfer(afterFee, invoice.emitter, amountToEmitter),
                 << [name |-> "PaymentConfirmed", invoiceId |-> _invoiceId],
                    [name |-> "PaymentReleased", invoiceId |-> _invoiceId,
                     amount |-> amountToEmitter, fee |-> fee] >>)

\* variant: the release does not look at a dispute
autoReleasePaymentIgnoresDispute(_invoiceId, refusing) ==
  LET invoice == invoices[_invoiceId]
      fee == platformFee(invoice.amount, platformFeePercent)
      amountToEmitter == invoice.amount - fee
      afterFee == transfer(balance, platformWallet, fee)
  IN IF invoice.status \notin {"Paid", "Disputed"} THEN Revert(MustBePaid)
     ELSE IF ~ timeoutReached(now, invoice.paymentTimeStamp, paymentTimeout)
       THEN Revert(TimeoutNotReached)
     ELSE IF ~ canTransfer(balance, platformWallet, fee, refusing)
       THEN Revert(TransferFailed)
     ELSE IF ~ canTransfer(afterFee, invoice.emitter, amountToEmitter, refusing)
       THEN Revert(TransferFailed)
     ELSE Commit([invoices EXCEPT ![_invoiceId].status = "Released"],
                 transfer(afterFee, invoice.emitter, amountToEmitter),
                 << [name |-> "PaymentReleased", invoiceId |-> _invoiceId,
                     amount |-> amountToEmitter, fee |-> fee] >>)

\* variant: the release waits for a dispute
autoReleasePaymentOfDisputed(_invoiceId, refusing) ==
  LET invoice == invoices[_invoiceId]
      fee == platformFee(invoice.amount, platformFeePercent)
      amountToEmitter == invoice.amount - fee
      afterFee == transfer(balance, platformWallet, fee)
  IN IF invoice.status # "Disputed" THEN Revert(MustBePaid)
     ELSE IF ~ timeoutReached(now, invoice.paymentTimeStamp, paymentTimeout)
       THEN Revert(TimeoutNotReached)
     ELSE IF ~ canTransfer(balance, platformWallet, fee, refusing)
       THEN Revert(TransferFailed)
     ELSE IF ~ canTransfer(afterFee, invoice.emitter, amountToEmitter, refusing)
       THEN Revert(TransferFailed)
     ELSE Commit([invoices EXCEPT ![_invoiceId].status = "Released"],
                 transfer(afterFee, invoice.emitter, amountToEmitter),
                 << [name |-> "PaymentReleased", invoiceId |-> _invoiceId,
                     amount |-> amountToEmitter, fee |-> fee] >>)

\* variant: the release also runs on an invoice the client has confirmed
autoReleasePaymentAfterConfirm(_invoiceId, refusing) ==
  LET invoice == invoices[_invoiceId]
      fee == platformFee(invoice.amount, platformFeePercent)
      amountToEmitter == invoice.amount - fee
      afterFee == transfer(balance, platformWallet, fee)
  IN IF invoice.status \notin {"Paid", "Validated"} THEN Revert(MustBePaid)
     ELSE IF ~ timeoutReached(now, invoice.paymentTimeStamp, paymentTimeout)
       THEN Revert(TimeoutNotReached)
     ELSE IF ~ canTransfer(balance, platformWallet, fee, refusing)
       THEN Revert(TransferFailed)
     ELSE IF ~ canTransfer(afterFee, invoice.emitter, amountToEmitter, refusing)
       THEN Revert(TransferFailed)
     ELSE Commit([invoices EXCEPT ![_invoiceId].status = "Released"],
                 transfer(afterFee, invoice.emitter, amountToEmitter),
                 << [name |-> "PaymentReleased", invoiceId |-> _invoiceId,
                     amount |-> amountToEmitter, fee |-> fee] >>)

\* variant: the fee stays in the contract
autoReleasePaymentKeepsFee(_invoiceId, refusing) ==
  LET invoice == invoices[_invoiceId]
      fee == platformFee(invoice.amount, platformFeePercent)
      amountToEmitter == invoice.amount - fee
  IN IF invoice.status # "Paid" THEN Revert(MustBePaid)
     ELSE IF ~ timeoutReached(now, invoice.paymentTimeStamp, paymentTimeout)
       THEN Revert(TimeoutNotReached)
     ELSE IF ~ canTransfer(balance, invoice.emitter, amountToEmitter, refusing)
       THEN Revert(TransferFailed)
     ELSE Commit([invoices EXCEPT ![_invoiceId].status = "Released"],
                 transfer(balance, invoice.emitter, amountToEmitter),
                 << [name |-> "PaymentReleased", invoiceId |-> _invoiceId,
                     amount |-> amountToEmitter, fee |-> fee] >>)

\* variant: the deadline is counted with the timeout of the constructor
autoReleasePaymentInitialTimeout(_invoiceId, refusing) ==
  LET invoice == invoices[_invoiceId]
      fee == platformFee(invoice.amount, platformFeePercent)
      amountToEmitter == invoice.amount - fee
      afterFee == transfer(balance, platformWallet, fee)
  IN IF invoice.status # "Paid" THEN Revert(MustBePaid)
     ELSE IF ~ timeoutReached(now, invoice.paymentTimeStamp, 7 * Day)
       THEN Revert(TimeoutNotReached)
     ELSE IF ~ canTransfer(balance, platformWallet, fee, refusing)
       THEN Revert(TransferFailed)
     ELSE IF ~ canTransfer(afterFee, invoice.emitter, amountToEmitter, refusing)
       THEN Revert(TransferFailed)
     ELSE Commit([invoices EXCEPT ![_invoiceId].status = "Released"],
                 transfer(afterFee, invoice.emitter, amountToEmitter),
                 << [name |-> "PaymentReleased", invoiceId |-> _invoiceId,
                     amount |-> amountToEmitter, fee |-> fee] >>)

\* variant: the release clears the time of payment
autoReleasePaymentClearsTimestamp(_invoiceId, refusing) ==
  LET invoice == invoices[_invoiceId]
      fee == platformFee(invoice.amount, platformFeePercent)
      amountToEmitter == invoice.amount - fee
      afterFee == transfer(balance, platformWallet, fee)
  IN IF invoice.status # "Paid" THEN Revert(MustBePaid)
     ELSE IF ~ timeoutReached(now, invoice.paymentTimeStamp, paymentTimeout)
       THEN Revert(TimeoutNotReached)
     ELSE IF ~ canTransfer(balance, platformWallet, fee, refusing)
       THEN Revert(TransferFailed)
     ELSE IF ~ canTransfer(afterFee, invoice.emitter, amountToEmitter, refusing)
       THEN Revert(TransferFailed)
     ELSE Commit([invoices EXCEPT ![_invoiceId].status = "Released",
                                  ![_invoiceId].paymentTimeStamp = 0],
                 transfer(afterFee, invoice.emitter, amountToEmitter),
                 << [name |-> "PaymentReleased", invoiceId |-> _invoiceId,
                     amount |-> amountToEmitter, fee |-> fee] >>)

autoReleasePayment(_invoiceId, refusing) ==
  LET invoice == invoices[_invoiceId]
      fee == platformFee(invoice.amount, platformFeePercent)
      amountToEmitter == invoice.amount - fee
      afterFee == transfer(balance, platformWallet, fee)
  IN IF invoice.status # "Paid" THEN Revert(MustBePaid)
     ELSE IF ~ timeoutReached(now, invoice.paymentTimeStamp, paymentTimeout)
       THEN Revert(TimeoutNotReached)
     ELSE IF ~ canTransfer(balance, platformWallet, fee, refusing)
       THEN Revert(TransferFailed)
     ELSE IF ~ canTransfer(afterFee, invoice.emitter, amountToEmitter, refusing)
       THEN Revert(TransferFailed)
     ELSE Commit([invoices EXCEPT ![_invoiceId].status = "Released"],
                 transfer(afterFee, invoice.emitter, amountToEmitter),
                 << [name |-> "PaymentReleased", invoiceId |-> _invoiceId,
                     amount |-> amountToEmitter, fee |-> fee] >>)

\* variant: a dispute can still be opened once the payment is confirmed
disputeByClientAfterConfirm(_invoiceId, sender) ==
  LET invoice == invoices[_invoiceId]
  IN IF sender # invoice.client THEN Revert(OnlyClient)
     ELSE IF invoice.status \notin {"Paid", "Validated"} THEN Revert(MustBeInProgress)
     ELSE Commit([invoices EXCEPT ![_invoiceId].status = "Disputed"],
                 balance,
                 << [name |-> "PaymentDisputed", invoiceId |-> _invoiceId,
                     disputor |-> sender] >>)

\* variant: the dispute resets the time of payment
disputeByClientResetsTimestamp(_invoiceId, sender) ==
  LET invoice == invoices[_invoiceId]
  IN IF sender # invoice.client THEN Revert(OnlyClient)
     ELSE IF invoice.status # "Paid" THEN Revert(MustBeInProgress)
     ELSE Commit([invoices EXCEPT ![_invoiceId].status = "Disputed",
                                  ![_invoiceId].paymentTimeStamp = 0],
                 balance,
                 << [name |-> "PaymentDisputed", invoiceId |-> _invoiceId,
                     disputor |-> sender] >>)

\* variant: the caller is not checked
disputeByClientAnyCaller(_invoiceId, sender) ==
  LET invoice == invoices[_invoiceId]
  IN IF invoice.status # "Paid" THEN Revert(MustBeInProgress)
     ELSE Commit([invoices EXCEPT ![_invoiceId].status = "Disputed"],
                 balance,
                 << [name |-> "PaymentDisputed", invoiceId |-> _invoiceId,
                     disputor |-> sender] >>)

disputeByClient(_invoiceId, sender) ==
  LET invoice == invoices[_invoiceId]
  IN IF sender # invoice.client THEN Revert(OnlyClient)
     ELSE IF invoice.status # "Paid" THEN Revert(MustBeInProgress)
     ELSE Commit([invoices EXCEPT ![_invoiceId].status = "Disputed"],
                 balance,
                 << [name |-> "PaymentDisputed", invoiceId |-> _invoiceId,
                     disputor |-> sender] >>)

\* variant: the status is not checked
disputeByEmitterAnyStatus(_invoiceId, sender) ==
  LET invoice == invoices[_invoiceId]
  IN IF sender # invoice.emitter THEN Revert(OnlyEmitter)
     ELSE Commit([invoices EXCEPT ![_invoiceId].status = "Disputed"],
                 balance,
                 << [name |-> "PaymentDisputed", invoiceId |-> _invoiceId,
                     disputor |-> sender] >>)

disputeByEmitter(_invoiceId, sender) ==
  LET invoice == invoices[_invoiceId]
  IN IF sender # invoice.emitter THEN Revert(OnlyEmitter)
     ELSE IF invoice.status # "Paid" THEN Revert(MustBeInProgress)
     ELSE Commit([invoices EXCEPT ![_invoiceId].status = "Disputed"],
                 balance,
                 << [name |-> "PaymentDisputed", invoiceId |-> _invoiceId,
                     disputor |-> sender] >>)

\* variant: a release to the emitter pays the platform fee first
resolveDisputeWithFee(_invoiceId, releaseToEmitter, sender, refusing) ==
  LET invoice == invoices[_invoiceId]
      fee == platformFee(invoice.amount, platformFeePercent)
      afterFee == transfer(balance, platformWallet, fee)
      resolved == << [name |-> "DisputeResolved", invoiceId |-> _invoiceId,
                      releasedToEmitter |-> releaseToEmitter] >>
  IN IF sender # arbitrator THEN Revert(OnlyArbitrator)
     ELSE IF invoice.status # "Disputed" THEN Revert(NotInDispute)
     ELSE IF releaseToEmitter
       THEN IF \/ ~ canTransfer(balance, platformWallet, fee, refusing)
               \/ ~ canTransfer(afterFee, invoice.emitter, invoice.amount - fee,
                                refusing)
              THEN Revert(TransferFailed)
              ELSE Commit([invoices EXCEPT ![_invoiceId].status = "Released"],
                          transfer(afterFee, invoice.emitter, invoice.amount - fee),
                          resolved)
       ELSE IF ~ canTransfer(balance, invoice.client, invoice.amount, refusing)
              THEN Revert(TransferFailed)
              ELSE Commit([invoices EXCEPT ![_invoiceId].status = "Pending"],
                          transfer(balance, invoice.client, invoice.amount),
                          resolved)

\* variant: the refund is sent to the emitter
resolveDisputeRefundsEmitter(_invoiceId, releaseToEmitter, sender, refusing) ==
  LET invoice == invoices[_invoiceId]
      resolved == << [name |-> "DisputeResolved", invoiceId |-> _invoiceId,
                      releasedToEmitter |-> releaseToEmitter] >>
  IN IF sender # arbitrator THEN Revert(OnlyArbitrator)
     ELSE IF invoice.status # "Disputed" THEN Revert(NotInDispute)
     ELSE IF ~ canTransfer(balance, invoice.emitter, invoice.amount, refusing)
       THEN Revert(TransferFailed)
     ELSE Commit([invoices EXCEPT ![_invoiceId].status =
                    IF releaseToEmitter THEN "Released" ELSE "Pending"],
                 transfer(balance, invoice.emitter, invoice.amount),
                 resolved)

\* variant: the refund sends the client all the contract holds
resolveDisputeSendsAll(_invoiceId, releaseToEmitter, sender, refusing) ==
  LET invoice == invoices[_invoiceId]
      resolved == << [name |-> "DisputeResolved", invoiceId |-> _invoiceId,
                      releasedToEmitter |-> releaseToEmitter] >>
  IN IF sender # arbitrator THEN Revert(OnlyArbitrator)
     ELSE IF invoice.status # "Disputed" THEN Revert(NotInDispute)
     ELSE IF releaseToEmitter
       THEN IF ~ canTransfer(balance, invoice.emitter, invoice.amount, refusing)
              THEN Revert(TransferFailed)
              ELSE Commit([invoices EXCEPT ![_invoiceId].status = "Released"],
                          transfer(balance, invoice.emitter, invoice.amount), resolved)
       ELSE IF ~ canTransfer(balance, invoice.client, balance[This], refusing)
              THEN Revert(TransferFailed)
              ELSE Commit([invoices EXCEPT ![_invoiceId].status = "Pending"],
                          transfer(balance, invoice.client, balance[This]), resolved)

\* variant: the amount is sent and the status is left Disputed
resolveDisputeKeepsStatus(_invoiceId, releaseToEmitter, sender, refusing) ==
  LET invoice == invoices[_invoiceId]
      resolved == << [name |-> "DisputeResolved", invoiceId |-> _invoiceId,
                      releasedToEmitter |-> releaseToEmitter] >>
      to == IF releaseToEmitter THEN invoice.emitter ELSE invoice.client
  IN IF sender # arbitrator THEN Revert(OnlyArbitrator)
     ELSE IF invoice.status # "Disputed" THEN Revert(NotInDispute)
     ELSE IF ~ canTransfer(balance, to, invoice.amount, refusing)
       THEN Revert(TransferFailed)
     ELSE Commit(invoices, transfer(balance, to, invoice.amount), resolved)

\* variant: the caller is compared with the arbitrator of the constructor
resolveDisputeFirstArbitrator(_invoiceId, releaseToEmitter, sender, refusing) ==
  LET invoice == invoices[_invoiceId]
      resolved == << [name |-> "DisputeResolved", invoiceId |-> _invoiceId,
                      releasedToEmitter |-> releaseToEmitter] >>
      to == IF releaseToEmitter THEN invoice.emitter ELSE invoice.client
  IN IF sender # initialArbitrator THEN Revert(OnlyArbitrator)
     ELSE IF invoice.status # "Disputed" THEN Revert(NotInDispute)
     ELSE IF ~ canTransfer(balance, to, invoice.amount, refusing)
       THEN Revert(TransferFailed)
     ELSE Commit([invoices EXCEPT ![_invoiceId].status =
                    IF releaseToEmitter THEN "Released" ELSE "Pending"],
                 transfer(balance, to, invoice.amount),
                 resolved)

resolveDispute(_invoiceId, releaseToEmitter, sender, refusing) ==
  LET invoice == invoices[_invoiceId]
      resolved == << [name |-> "DisputeResolved", invoiceId |-> _invoiceId,
                      releasedToEmitter |-> releaseToEmitter] >>
  IN IF sender # arbitrator THEN Revert(OnlyArbitrator)
     ELSE IF invoice.status # "Disputed" THEN Revert(NotInDispute)
     ELSE IF releaseToEmitter
       THEN IF ~ canTransfer(balance, invoice.emitter, invoice.amount, refusing)
              THEN Revert(TransferFailed)
              ELSE Commit([invoices EXCEPT ![_invoiceId].status = "Released"],
                          transfer(balance, invoice.emitter, invoice.amount),
                          resolved)
       ELSE IF ~ canTransfer(balance, invoice.client, invoice.amount, refusing)
              THEN Revert(TransferFailed)
              ELSE Commit([invoices EXCEPT ![_invoiceId].status = "Pending"],
                          transfer(balance, invoice.client, invoice.amount),
                          resolved)

setArbitrator(sender, _newArbitrator) ==
  IF sender # owner
    THEN [result |-> OnlyOwner, arbitrator |-> arbitrator, events |-> << >>]
    ELSE [result |-> "ok", arbitrator |-> _newArbitrator,
          events |-> << [name |-> "ArbitratorChanged",
                         newArbitrator |-> _newArbitrator] >>]

\* variant: every caller may set the fee
setPlatformFeePercentAnyCaller(sender, _newFee) ==
  IF ~ (_newFee <= 10)
    THEN [result |-> FeeTooHigh, platformFeePercent |-> platformFeePercent,
          events |-> << >>]
  ELSE [result |-> "ok", platformFeePercent |-> _newFee,
        events |-> << >>]

\* variant: the fee has no upper limit
setPlatformFeePercentNoLimit(sender, _newFee) ==
  IF sender # owner
    THEN [result |-> OnlyOwner, platformFeePercent |-> platformFeePercent,
          events |-> << >>]
  ELSE [result |-> "ok", platformFeePercent |-> _newFee,
        events |-> << >>]

setPlatformFeePercent(sender, _newFee) ==
  IF sender # owner
    THEN [result |-> OnlyOwner, platformFeePercent |-> platformFeePercent,
          events |-> << >>]
  ELSE IF ~ (_newFee <= 10)
    THEN [result |-> FeeTooHigh, platformFeePercent |-> platformFeePercent,
          events |-> << >>]
  ELSE [result |-> "ok", platformFeePercent |-> _newFee,
        events |-> << >>]

\* variant: the timeout has no lower limit
setPaymentTimeoutAnyValue(sender, _newTimeout) ==
  IF sender # owner
    THEN [result |-> OnlyOwner, paymentTimeout |-> paymentTimeout,
          events |-> << >>]
  ELSE [result |-> "ok", paymentTimeout |-> _newTimeout,
        events |-> << >>]

setPaymentTimeout(sender, _newTimeout) ==
  IF sender # owner
    THEN [result |-> OnlyOwner, paymentTimeout |-> paymentTimeout,
          events |-> << >>]
  ELSE IF ~ (_newTimeout >= 1 * Day)
    THEN [result |-> TimeoutTooShort, paymentTimeout |-> paymentTimeout,
          events |-> << >>]
  ELSE [result |-> "ok", paymentTimeout |-> _newTimeout,
        events |-> << >>]

-----------------------------------------------------------------------------
(* The authentication store of the frontend                                 *)
(* (src/frontend/src/stores/useAuthStore.ts) and the service it calls       *)
(* (src/unnamed/part_005).  The contract's actions leave them alone.        *)

VARIABLES
  user,          \* ref<User | null>: << >> for null, <<u>> for the user u
  authState,     \* ref<AuthState>
  errorMessage,  \* ref<string>
  isLoading,     \* ref(false)
  authService,   \* the singleton's currentUser, accessToken, refreshToken
  inFlight,      \* the authenticateWithEther calls: where each one stands
  loggedOut      \* history: logout() has completed and neither
                 \* authenticateWithEther nor initializeAuth was started since

authVars ==
  <<user, authState, errorMessage, isLoading, authService, inFlight, loggedOut>>

allVars == <<vars, authVars>>

MaxCalls == 2

CallIds == 1 .. MaxCalls

null == << >>

\* a call that has not been made
NotStarted == [pc |-> "idle", account |-> "", value |-> null, error |-> ""]

\* the store as defineStore's setup leaves it, the service without a stored
\* session
StoreInit ==
  /\ user = null
  /\ authState = "idle"
  /\ errorMessage = ""
  /\ isLoading = FALSE
  /\ authService = [currentUser |-> null, accessToken |-> null,
                    refreshToken |-> null]
  /\ inFlight = [c \in CallIds |-> NotStarted]
  /\ loggedOut = FALSE

-----------------------------------------------------------------------------
(* The state machine.                                                       *)

Init ==
  /\ invoices = [i \in InvoiceIds |-> ZeroInvoice]
  /\ invoiceCount = 0
  /\ arbitrator = initialArbitrator
  /\ platformFeePercent = 2
  /\ paymentTimeout = 7 * Day
  /\ balance = [a \in Address \cup {This} |-> IF a = This THEN 0 ELSE InitBalance]
  /\ now = 1
  /\ StoreInit

CreateInvoice ==
  \E in \in CreateInputs :
    /\ invoiceCount < MaxInvoices
    /\ LET r == createInvoice(in[1], in[2], in[3]) IN
         /\ invoices' = r.invoices
         /\ invoiceCount' = r.invoiceCount
    /\ UNCHANGED <<authVars, arbitrator, platformFeePercent, paymentTimeout, balance, now>>

PayInvoice ==
  \E id \in InvoiceIds, sender \in Address, value \in MsgValues :
    /\ value <= balance[sender]
    /\ LET r == payInvoice(id, sender, value) IN
         /\ invoices' = r.invoices
         /\ balance' = r.balance
    /\ UNCHANGED <<authVars, invoiceCount, arbitrator, platformFeePercent, paymentTimeout, now>>

ConfirmPayment ==
  \E id \in InvoiceIds, sender \in Address, refusing \in Refusals :
    /\ LET r == confirmPayment(id, sender, refusing) IN
         /\ invoices' = r.invoices
         /\ balance' = r.balance
    /\ UNCHANGED <<authVars, invoiceCount, arbitrator, platformFeePercent, paymentTimeout, now>>

AutoReleasePayment ==
  \E id \in InvoiceIds, refusing \in Refusals :
    /\ LET r == autoReleasePayment(id, refusing) IN
         /\ invoices' = r.invoices
         /\ balance' = r.balance
    /\ UNCHANGED <<authVars, invoiceCount, arbitrator, platformFeePercent, paymentTimeout, now>>

DisputeByClient ==
  \E id \in InvoiceIds, sender \in Address :
    /\ LET r == disputeByClient(id, sender) IN
         /\ invoices' = r.invoices
         /\ balance' = r.balance
    /\ UNCHANGED <<authVars, invoiceCount, arbitrator, platformFeePercent, paymentTimeout, now>>

DisputeByEmitter ==
  \E id \in InvoiceIds, sender \in Address :
    /\ LET r == disputeByEmitter(id, sender) IN
         /\ invoices' = r.invoices
         /\ balance' = r.balance
    /\ UNCHANGED <<authVars, invoiceCount, arbitrator, platformFeePercent, paymentTimeout, now>>

ResolveDispute ==
  \E id \in InvoiceIds, releaseToEmitter \in BOOLEAN, sender \in Address,
     refusing \in Refusals :
    /\ LET r == resolveDispute(id, releaseToEmitter, sender, refusing) IN
         /\ invoices' = r.invoices
         /\ balance' = r.balance
    /\ UNCHANGED <<authVars, invoiceCount, arbitrator, platformFeePercent, paymentTimeout, now>>

\* variant: a new arbitrator comes with the fee of the constructor
SetArbitratorResetsFee ==
  \E sender \in Address, _newArbitrator \in NewArbitrators :
    LET r == setArbitrator(sender, _newArbitrator) IN
      /\ arbitrator' = r.arbitrator
      /\ platformFeePercent' = IF r.result = "ok" THEN 2 ELSE platformFeePercent
      /\ UNCHANGED <<authVars, invoices, invoiceCount, paymentTimeout, balance, now>>

SetArbitrator ==
  \E sender \in Address, _newArbitrator \in NewArbitrators :
    LET r == setArbitrator(sender, _newArbitrator) IN
      /\ arbitrator' = r.arbitrator
      /\ UNCHANGED <<authVars, invoices, invoiceCount, platformFeePercent, paymentTimeout,
                     balance, now>>

SetPlatformFeePercent ==
  \E sender \in Address, _newFee \in NewFees :
    LET r == setPlatformFeePercent(sender, _newFee) IN
      /\ platformFeePercent' = r.platformFeePercent
      /\ UNCHANGED <<authVars, invoices, invoiceCount, arbitrator, paymentTimeout,
                     balance, now>>

SetPaymentTimeout ==
  \E sender \in Address, _newTimeout \in NewTimeouts :
    LET r == setPaymentTimeout(sender, _newTimeout) IN
      /\ paymentTimeout' = r.paymentTimeout
      /\ UNCHANGED <<authVars, invoices, invoiceCount, arbitrator, platformFeePercent,
                     balance, now>>

\* a later block: block.timestamp moves to the next time point
Tick ==
  /\ \E t \in TimePoints : t > now
  /\ now' = CHOOSE t \in TimePoints :
              t > now /\ \A u \in TimePoints : u > now => t <= u
  /\ UNCHANGED <<authVars, invoices, invoiceCount, arbitrator, platformFeePercent,
                 paymentTimeout, balance>>

Next ==
  \/ CreateInvoice
  \/ PayInvoice
  \/ ConfirmPayment
  \/ AutoReleasePayment
  \/ DisputeByClient
  \/ DisputeByEmitter
  \/ ResolveDispute
  \/ SetArbitrator
  \/ SetPlatformFeePercent
  \/ SetPaymentTimeout
  \/ Tick

Spec == Init /\ [][Next]_allVars

TypeOK ==
  /\ invoiceCount \in 0 .. MaxInvoices
  /\ \A i \in InvoiceIds : invoices[i].status \in Status
  /\ now \in TimePoints

-----------------------------------------------------------------------------
(* Every call that can be made on an invoice in the current state, with its  *)
(* outcome.                                                                  *)

Created == 1 .. invoiceCount

Attempt(op, sender, out) == [op |-> op, sender |-> sender, out |-> out]

AttemptsOn(id) ==
  {Attempt("payInvoice", c[1], payInvoice(id, c[1], c[2])) :
     c \in {d \in Address \X MsgValues : d[2] <= balance[d[1]]}}
  \cup {Attempt("confirmPayment", s, confirmPayment(id, s, r)) :
          s \in Address, r \in Refusals}
  \cup {Attempt("autoReleasePayment", s, autoReleasePayment(id, r)) :
          s \in Address, r \in Refusals}
  \cup {Attempt("disputeByClient", s, disputeByClient(id, s)) : s \in Address}
  \cup {Attempt("disputeByEmitter", s, disputeByEmitter(id, s)) : s \in Address}
  \cup {Attempt("resolveDispute(true)", s, resolveDispute(id, TRUE, s, r)) :
          s \in Address, r \in Refusals}
  \cup {Attempt("resolveDispute(false)", s, resolveDispute(id, FALSE, s, r)) :
          s \in Address, r \in Refusals}

\* the transition table: operation, status before, status after
Edges ==
  {<<"payInvoice", "Pending", "Paid">>,
   <<"confirmPayment", "Paid", "Validated">>,
   <<"autoReleasePayment", "Paid", "Released">>,
   <<"disputeByClient", "Paid", "Disputed">>,
   <<"disputeByEmitter", "Paid", "Disputed">>,
   <<"resolveDispute(true)", "Disputed", "Released">>,
   <<"resolveDispute(false)", "Disputed", "Pending">>}

SourceOf(op) == CHOOSE st \in Status : \E e \in Edges : e[1] = op /\ e[2] = st

\* the callers the operation's role guard lets through
RoleOf(op, id) ==
  IF op \in {"payInvoice", "confirmPayment", "disputeByClient"}
    THEN {invoices[id].client}
  ELSE IF op = "disputeByEmitter" THEN {invoices[id].emitter}
  ELSE IF op \in {"resolveDispute(true)", "resolveDispute(false)"} THEN {arbitrator}
  ELSE Address

Untouched(out) == out.invoices = invoices /\ out.balance = balance

-----------------------------------------------------------------------------
(* C1.  Status moves only along the edges of the transition table.           *)

\* C1 as stated: every invoice's status changes only along the edges
\* Pending->Paid (payInvoice), Paid->Validated (confirmPayment), Paid->Released
\* (autoReleasePayment), Paid->Disputed (disputeByClient, disputeByEmitter),
\* Disputed->Released (resolveDispute true), Disputed->Pending (resolveDispute
\* false), and every operation attempted from another status fails with a state
\* conflict and leaves the status and all balances unchanged.
C1_AnyCallerStateConflict ==
  \A id \in Created : \A a \in AttemptsOn(id) :
    /\ a.out.result = "ok" =>
         <<a.op, invoices[id].status, a.out.invoices[id].status>> \in Edges
    /\ invoices[id].status # SourceOf(a.op) =>
         a.out.result \in StateConflict /\ Untouched(a.out)

C1_CallsFollowEdges ==
  \A id \in Created : \A a \in AttemptsOn(id) :
    /\ a.out.result = "ok" =>
         /\ <<a.op, invoices[id].status, a.out.invoices[id].status>> \in Edges
         /\ \A j \in InvoiceIds \ {id} :
              a.out.invoices[j].status = invoices[j].status
    /\ a.out.result # "ok" => Untouched(a.out)
    /\ invoices[id].status # SourceOf(a.op) =>
         /\ a.sender \in RoleOf(a.op, id) => a.out.result \in StateConflict
         /\ a.sender \notin RoleOf(a.op, id) => a.out.result \in AuthorizationError

C1_StepFollowsEdge ==
  \A id \in InvoiceIds :
    invoices'[id].status # invoices[id].status =>
      \E e \in Edges : e[2] = invoices[id].status /\ e[3] = invoices'[id].status

\* C1, amended: status changes only along the edges of the table (in every step
\* of the contract, and for every call that succeeds); an operation attempted
\* from a status that is not the source of its edge fails and leaves the status
\* and all balances unchanged, with a state conflict when the caller passes the
\* operation's role guard and with the authorization error otherwise.
C1_StatusEdges == [] C1_CallsFollowEdges /\ [][C1_StepFollowsEdge]_vars

\* an invoice went Pending->Paid->Disputed->Pending, the other is Disputed and
\* its client's confirmPayment is refused with the state conflict
C1_Witness ==
  \E id \in Created, other \in Created :
    /\ invoices[id].status = "Pending" /\ invoices[id].paymentTimeStamp # 0
    /\ invoices[other].status = "Disputed"
    /\ confirmPayment(other, invoices[other].client, {}).result = MustBePaid
    /\ confirmPayment(other, invoices[other].emitter, {}).result = OnlyClient

-----------------------------------------------------------------------------
(* C2.  Escrow custody equals the amounts of the Paid and Disputed invoices. *)

Held(id) ==
  IF invoices[id].status \in {"Paid", "Disputed"} THEN invoices[id].amount ELSE 0

RECURSIVE HeldUpTo(_)
HeldUpTo(n) == IF n = 0 THEN 0 ELSE Held(n) + HeldUpTo(n - 1)

\* C2: in every reachable state the contract's balance equals the sum of amount
\* over the invoices that are Paid or Disputed, so every settlement and refund
\* is covered by the invoice's own payment: with willing recipients it succeeds
\* and leaves exactly the other invoices' funds in the contract.
C2_EscrowCovers ==
  /\ balance[This] = HeldUpTo(MaxInvoices)
  /\ \A id \in Created :
       /\ invoices[id].status = "Paid" =>
            \A out \in {confirmPayment(id, invoices[id].client, {}),
                        autoReleasePayment(id, {})} :
              /\ out.result \in {"ok", TimeoutNotReached}
              /\ out.result = "ok" =>
                   out.balance[This] = HeldUpTo(MaxInvoices) - invoices[id].amount
       /\ invoices[id].status = "Disputed" =>
            \A toEmitter \in BOOLEAN :
              LET out == resolveDispute(id, toEmitter, arbitrator, {}) IN
                /\ out.result = "ok"
                /\ out.balance[This] = HeldUpTo(MaxInvoices) - invoices[id].amount

\* two invoices with funds in escrow at once, one Paid and one Disputed
C2_Witness ==
  \E id \in Created, other \in Created :
    /\ invoices[id].status = "Paid" /\ invoices[id].amount = 75
    /\ invoices[other].status = "Disputed" /\ invoices[other].amount = 30
    /\ balance[This] = 105
    /\ resolveDispute(other, FALSE, arbitrator, {}).balance[This] = 75

-----------------------------------------------------------------------------
(* C3.  payInvoice with a wrong amount.                                      *)

\* the sums the sender can attach to a call
Payable(sender) == {v \in MsgValues : v <= balance[sender]}

\* C3: payInvoice by the designated client on a Pending invoice with a value
\* other than the invoice amount, lower or higher, fails with the validation
\* error "Incorrect payment amount", moves nothing into escrow and leaves the
\* status Pending and paymentTimeStamp as they were.
C3_WrongAmountRejected ==
  \A id \in Created :
    invoices[id].status = "Pending" =>
      \A v \in Payable(invoices[id].client) \ {invoices[id].amount} :
        LET out == payInvoice(id, invoices[id].client, v) IN
          /\ out.result = IncorrectAmount
          /\ out.result \in ValidationError
          /\ out.balance[This] = balance[This]
          /\ out.balance = balance
          /\ out.invoices[id].status = "Pending"
          /\ out.invoices[id].paymentTimeStamp = invoices[id].paymentTimeStamp

\* a Pending invoice of 30 whose client offers less (0) and more (75)
C3_Witness ==
  \E id \in Created :
    /\ invoices[id].status = "Pending" /\ invoices[id].amount = 30
    /\ {0, 75} \subseteq Payable(invoices[id].client)
    /\ payInvoice(id, invoices[id].client, 0).result = IncorrectAmount
    /\ payInvoice(id, invoices[id].client, 75).result = IncorrectAmount

-----------------------------------------------------------------------------
(* C4.  payInvoice with the exact amount.                                    *)

\* C4: payInvoice by the designated client on a Pending invoice with a value
\* equal to the invoice amount succeeds, sets the status to Paid and
\* paymentTimeStamp to the current time, and moves exactly the amount from the
\* client into the contract.
C4_ExactPaymentSucceeds ==
  \A id \in Created :
    (invoices[id].status = "Pending"
       /\ invoices[id].amount \in Payable(invoices[id].client)) =>
      LET client == invoices[id].client
          out == payInvoice(id, client, invoices[id].amount)
      IN /\ out.result = "ok"
         /\ out.invoices[id].status = "Paid"
         /\ out.invoices[id].paymentTimeStamp = now
         /\ out.balance[This] = balance[This] + invoices[id].amount
         /\ out.balance[client] = balance[client] - invoices[id].amount

-----------------------------------------------------------------------------
(* C5.  The fee split of a settlement.                                       *)

\* what an account gains when a call's outcome is installed
Gain(out, account) == out.balance[account] - balance[account]

Settlements(id) ==
  {confirmPayment(id, invoices[id].client, r) : r \in Refusals}
  \cup {autoReleasePayment(id, r) : r \in Refusals}

\* C5: every successful confirmPayment and autoReleasePayment computes
\* fee = floor(amount * feePercent / 100), pays fee to the platform wallet and
\* amountToEmitter to the emitter out of the contract, and
\* fee + amountToEmitter = amount; the fee is such a floor, and at most the
\* amount, for every amount and every fee percent in 0..10.
C5_FeeSplit ==
  /\ \A amount \in MsgValues \cup {1, 9, 10, 99, 100, 101}, percent \in 0 .. 10 :
       LET fee == platformFee(amount, percent) IN
         /\ 100 * fee <= amount * percent
         /\ amount * percent < 100 * (fee + 1)
         /\ 0 <= fee /\ fee <= amount
  /\ \A id \in Created :
       invoices[id].status = "Paid" =>
         \A out \in Settlements(id) :
           out.result = "ok" =>
             LET released == out.events[Len(out.events)]
                 amount == invoices[id].amount
             IN /\ released.name = "PaymentReleased"
                /\ 100 * released.fee <= amount * platformFeePercent
                /\ amount * platformFeePercent < 100 * (released.fee + 1)
                /\ released.fee + released.amount = amount
                /\ released.amount >= 0
                /\ \A account \in Address \cup {This} :
                     Gain(out, account) =
                       (IF account = platformWallet THEN released.fee ELSE 0)
                       + (IF account = invoices[id].emitter
                            THEN released.amount ELSE 0)
                       - (IF account = This THEN amount ELSE 0)

\* a Paid invoice of 75 settled at 10 percent: the fee 7.5 is cut to 7
C5_Witness ==
  \E id \in Created :
    /\ invoices[id].status = "Paid" /\ invoices[id].amount = 75
    /\ platformFeePercent = 10
    /\ LET out == confirmPayment(id, invoices[id].client, {}) IN
         /\ out.result = "ok"
         /\ Gain(out, platformWallet) = 7
         /\ Gain(out, invoices[id].emitter) = 68
    /\ \E other \in Created :
         /\ invoices[other].status \in {"Released", "Validated"}
         /\ balance[platformWallet] > InitBalance

-----------------------------------------------------------------------------
(* C6.  The two settlement paths and their statuses.                         *)

Deadline(id) == invoices[id].paymentTimeStamp + paymentTimeout

\* C6: confirmPayment by the designated client on a Paid invoice succeeds
\* before and after the deadline alike (its transfers being accepted) and sets
\* the status to Validated; a successful autoReleasePayment sets it to
\* Released; neither path ends in the other's status.
C6_ConfirmAnyTime ==
  \A id \in Created :
    invoices[id].status = "Paid" =>
      \A r \in Refusals :
        LET confirmed == confirmPayment(id, invoices[id].client, r)
            released == autoReleasePayment(id, r)
        IN /\ r \cap {platformWallet, invoices[id].emitter} = {} =>
                confirmed.result = "ok"
           /\ confirmed.result = "ok" =>
                confirmed.invoices[id].status = "Validated"
           /\ released.result = "ok" =>
                released.invoices[id].status = "Released"

\* one Paid invoice is confirmed before its deadline; the other, past its
\* deadline, can be confirmed (Validated) or auto-released (Released)
C6_Witness ==
  \E id \in Created, other \in Created :
    /\ invoices[id].status = "Paid" /\ now < Deadline(id)
    /\ confirmPayment(id, invoices[id].client, {}).invoices[id].status = "Validated"
    /\ invoices[other].status = "Paid" /\ now > Deadline(other)
    /\ confirmPayment(other, invoices[other].client, {}).invoices[other].status
         = "Validated"
    /\ autoReleasePayment(other, {}).invoices[other].status = "Released"

-----------------------------------------------------------------------------
(* C7.  autoReleasePayment and the deadline.                                 *)

\* C7: autoReleasePayment on a Paid invoice, whoever calls it, fails with
\* "Timeout not reached" and changes nothing while now < paymentTimeStamp +
\* paymentTimeout, and succeeds (its transfers being accepted) when
\* now >= paymentTimeStamp + paymentTimeout, the deadline itself included.
C7_AutoReleaseDeadline ==
  \A id \in Created :
    invoices[id].status = "Paid" =>
      \A r \in Refusals :
        LET out == autoReleasePayment(id, r) IN
          /\ now < Deadline(id) =>
               out.result = TimeoutNotReached /\ Untouched(out)
          /\ (now >= Deadline(id)
                /\ r \cap {platformWallet, invoices[id].emitter} = {}) =>
               out.result = "ok" /\ out.invoices[id].status = "Released"

\* at one time, a Paid invoice exactly at its deadline is released and a Paid
\* invoice before its deadline is refused
C7_Witness ==
  \E id \in Created, other \in Created :
    /\ invoices[id].status = "Paid" /\ now = Deadline(id)
    /\ autoReleasePayment(id, {}).result = "ok"
    /\ invoices[other].status = "Paid" /\ now < Deadline(other)
    /\ autoReleasePayment(other, {}).result = TimeoutNotReached

-----------------------------------------------------------------------------
(* C8, C9, C10.  resolveDispute.                                             *)

\* C8: resolveDispute(true) by the arbitrator on a Disputed invoice (the
\* emitter accepting the transfer) pays the full amount to the emitter, with no
\* platform fee: the platform wallet's balance, like every balance but the
\* emitter's and the contract's, is unchanged; the status becomes Released.
C8_ResolveToEmitter ==
  \A id \in Created :
    invoices[id].status = "Disputed" =>
      \A r \in Refusals :
        LET out == resolveDispute(id, TRUE, arbitrator, r)
            emitter == invoices[id].emitter
        IN /\ emitter \notin r => out.result = "ok"
           /\ out.result = "ok" =>
                /\ out.invoices[id].status = "Released"
                /\ Gain(out, emitter) = invoices[id].amount
                /\ Gain(out, This) = - invoices[id].amount
                /\ Gain(out, platformWallet) = 0
                /\ \A account \in Address \ {emitter} : Gain(out, account) = 0

\* a Disputed invoice of 75 with a fee of 10 percent in force is resolved to the
\* emitter, who receives all 75
C8_Witness ==
  \E id \in Created :
    /\ invoices[id].status = "Disputed" /\ invoices[id].amount = 75
    /\ platformFeePercent = 10
    /\ LET out == resolveDispute(id, TRUE, arbitrator, {}) IN
         /\ out.result = "ok"
         /\ Gain(out, invoices[id].emitter) = 75
         /\ out.invoices[id].status = "Released"

\* C9: resolveDispute(false) by the arbitrator on a Disputed invoice (the
\* client accepting the transfer) refunds the full amount to the client, with
\* no fee, and sets the status to Pending.
C9_ResolveToClient ==
  \A id \in Created :
    invoices[id].status = "Disputed" =>
      \A r \in Refusals :
        LET out == resolveDispute(id, FALSE, arbitrator, r)
            client == invoices[id].client
        IN /\ client \notin r => out.result = "ok"
           /\ out.result = "ok" =>
                /\ out.invoices[id].status = "Pending"
                /\ Gain(out, client) = invoices[id].amount
                /\ Gain(out, This) = - invoices[id].amount
                /\ \A account \in Address \ {client} : Gain(out, account) = 0

\* a Disputed invoice of 75 is resolved to its client, whose balance is back at
\* what it was before the payment
C9_Witness ==
  \E id \in Created :
    /\ invoices[id].status = "Disputed" /\ invoices[id].amount = 75
    /\ LET out == resolveDispute(id, FALSE, arbitrator, {}) IN
         /\ out.result = "ok"
         /\ out.invoices[id].status = "Pending"
         /\ out.balance[invoices[id].client] = InitBalance

\* C10: paymentTimeStamp is cleared when a dispute resolves back to Pending:
\* in every reachable state an invoice whose status is Pending has
\* paymentTimeStamp unset (0), before its first payment and after any
\* resolveDispute(false).
C10_PendingHasNoTimestamp ==
  \A id \in Created :
    invoices[id].status = "Pending" => invoices[id].paymentTimeStamp = 0

-----------------------------------------------------------------------------
(* C11.  The role guards of the client's and the emitter's operations.       *)

PartyOps == {"payInvoice", "confirmPayment", "disputeByClient", "disputeByEmitter"}

\* C11: payInvoice, confirmPayment and disputeByClient succeed only when the
\* caller is the invoice's client, and disputeByEmitter only when the caller is
\* the invoice's emitter; for every other caller (the emitter for the client's
\* operations, the client for disputeByEmitter, the arbitrator, the owner) the
\* call fails with the authorization error, emits nothing and changes no
\* invoice field and no balance.
C11_PartyGuards ==
  \A id \in Created : \A a \in AttemptsOn(id) :
    a.op \in PartyOps =>
      /\ a.out.result = "ok" => a.sender \in RoleOf(a.op, id)
      /\ a.sender \notin RoleOf(a.op, id) =>
           /\ a.out.result =
                (IF a.op = "disputeByEmitter" THEN OnlyEmitter ELSE OnlyClient)
           /\ a.out.result \in AuthorizationError
           /\ Untouched(a.out)
           /\ a.out.events = << >>

\* a Paid invoice (its client's payInvoice went through): the emitter, the
\* arbitrator and the owner are refused a confirmPayment, the client a
\* disputeByEmitter, while each party's own dispute would go through
C11_Witness ==
  \E id \in Created :
    LET client == invoices[id].client
        emitter == invoices[id].emitter
    IN /\ invoices[id].status = "Paid" /\ invoices[id].amount = 75
       /\ \A s \in {emitter, arbitrator, owner} :
            /\ confirmPayment(id, s, {}).result = OnlyClient
            /\ disputeByClient(id, s).result = OnlyClient
       /\ \A s \in {client, arbitrator, owner} :
            disputeByEmitter(id, s).result = OnlyEmitter
       /\ disputeByClient(id, client).result = "ok"
       /\ disputeByEmitter(id, emitter).result = "ok"

-----------------------------------------------------------------------------
(* C12.  The arbitrator's guard.                                             *)

C12_ArbitratorOnly ==
  \A id \in Created : \A s \in Address, b \in BOOLEAN, r \in Refusals :
    LET out == resolveDispute(id, b, s, r) IN
      /\ out.result = "ok" => s = arbitrator
      /\ s # arbitrator =>
           /\ out.result = OnlyArbitrator
           /\ out.result \in AuthorizationError
           /\ Untouched(out)
           /\ out.events = << >>
      /\ (s = arbitrator /\ invoices[id].status = "Disputed" /\ r = {}) =>
           out.result = "ok"

\* a step that changes the arbitrator: the disputes open before it are resolved
\* by the new arbitrator, and no longer by the one replaced
C12_Handover ==
  arbitrator' # arbitrator =>
    \A id \in Created : \A old \in Address, new \in Address, b \in BOOLEAN :
      (invoices[id].status = "Disputed" /\ old = arbitrator /\ new = arbitrator') =>
        /\ (resolveDispute(id, b, new, {}).result = "ok")'
        /\ (resolveDispute(id, b, old, {}).result = OnlyArbitrator)'

\* C12: resolveDispute succeeds only when the caller is the arbitrator
\* configured at the time of the call: the invoice's client, its emitter and an
\* arbitrator replaced by an earlier setArbitrator fail with the authorization
\* error and change nothing, and the newly configured arbitrator resolves the
\* disputes opened before the change.
C12_CurrentArbitrator == [] C12_ArbitratorOnly /\ [][C12_Handover]_vars

\* the arbitrator was replaced by the owner; on a Disputed invoice the replaced
\* arbitrator, the client and the emitter are refused and the new one resolves
C12_Witness ==
  \E id \in Created :
    /\ arbitrator = "owner"
    /\ invoices[id].status = "Disputed" /\ invoices[id].amount = 75
    /\ \A s \in {initialArbitrator, invoices[id].client, invoices[id].emitter} :
         \A b \in BOOLEAN : resolveDispute(id, b, s, {}).result = OnlyArbitrator
    /\ resolveDispute(id, TRUE, "owner", {}).invoices[id].status = "Released"
    /\ resolveDispute(id, FALSE, "owner", {}).invoices[id].status = "Pending"

-----------------------------------------------------------------------------
(* C13.  Released and Validated are terminal.                                *)

Terminal == {"Released", "Validated"}

\* every call on a settled invoice fails and leaves invoices and balances
C13_SettledRejectsAll ==
  \A id \in Created :
    invoices[id].status \in Terminal =>
      \A a \in AttemptsOn(id) :
        /\ a.out.result # "ok"
        /\ Untouched(a.out)
        /\ a.out.events = << >>

\* no step changes a settled invoice
C13_SettledStays ==
  \A id \in Created :
    invoices[id].status \in Terminal => invoices'[id] = invoices[id]

\* C13: Released and Validated are terminal: once an invoice has either status,
\* every later operation on it by any caller (pay, confirm, auto-release,
\* dispute by client or emitter, resolve) fails, and the invoice's status and
\* paymentTimeStamp stay as they are in every later state; a failed call
\* changes no balance.
C13_Terminal == [] C13_SettledRejectsAll /\ [][C13_SettledStays]_vars

\* one invoice Validated by its client and one Released, the other party's
\* money having arrived, while the client could still afford to pay again
C13_Witness ==
  /\ \E id \in Created :
       /\ invoices[id].status = "Validated" /\ invoices[id].amount = 30
       /\ balance[invoices[id].client] >= 30
  /\ \E id \in Created :
       /\ invoices[id].status = "Released" /\ invoices[id].amount = 75
       /\ balance[invoices[id].client] >= 75

-----------------------------------------------------------------------------
(* C14.  confirmPayment against disputeByClient on one Paid invoice.  The    *)
(* chain runs the two transactions one after the other, each as one step:    *)
(* the second one meets the state the first one left.                        *)

\* on a Paid invoice each of the two calls would go through if it came first
C14_EitherCanWin ==
  \A id \in Created :
    invoices[id].status = "Paid" =>
      /\ confirmPayment(id, invoices[id].client, {}).result = "ok"
      /\ disputeByClient(id, invoices[id].client).result = "ok"

\* the step that confirms pays the amount out once and shuts the dispute out;
\* the step that disputes keeps the amount and shuts the confirmation out
C14_WinnerShutsLoser ==
  \A id \in Created : \A c \in Address :
    (c = invoices[id].client /\ invoices[id].status = "Paid"
       /\ invoices'[id].status # "Paid") =>
      \/ /\ invoices'[id].status = "Validated"
         /\ balance'[This] = balance[This] - invoices[id].amount
         /\ balance'[This] = HeldUpTo(invoiceCount)'
         /\ (Held(id))' = 0
         /\ (LET out == disputeByClient(id, c)
             IN out.result = MustBeInProgress /\ out.result \in StateConflict
                /\ Untouched(out) /\ out.events = << >>)'
      \/ /\ invoices'[id].status = "Disputed"
         /\ balance' = balance
         /\ (Held(id))' = invoices[id].amount
         /\ \A r \in Refusals :
              (LET out == confirmPayment(id, c, r)
               IN out.result = MustBePaid /\ out.result \in StateConflict
                  /\ Untouched(out) /\ out.events = << >>)'
      \/ /\ invoices'[id].status = "Released"
         /\ timeoutReached(now, invoices[id].paymentTimeStamp, paymentTimeout)

\* C14: confirmPayment and disputeByClient issued together on one Paid invoice
\* are run one after the other; whichever runs first commits and the other
\* fails with a state conflict and changes nothing: the invoice ends Validated
\* with its amount paid out of the contract once, or Disputed with the whole
\* amount still held by the contract.
C14_ConfirmOrDispute == [] C14_EitherCanWin /\ [][C14_WinnerShutsLoser]_vars

\* both outcomes of the race: a Validated invoice whose client's dispute is
\* refused, and a Disputed one whose client's confirmation is refused
C14_Witness ==
  /\ \E id \in Created :
       /\ invoices[id].status = "Validated" /\ invoices[id].amount = 75
       /\ disputeByClient(id, invoices[id].client).result = MustBeInProgress
  /\ \E id \in Created :
       /\ invoices[id].status = "Disputed" /\ invoices[id].amount = 30
       /\ confirmPayment(id, invoices[id].client, {}).result = MustBePaid
       /\ balance[This] = 30

-----------------------------------------------------------------------------
(* C15.  autoReleasePayment against confirmPayment past the deadline.  The   *)
(* caller of autoReleasePayment is outside the contract; any address may be  *)
(* it.                                                                       *)

\* past the deadline of a Paid invoice each of the two calls would go through
C15_EitherCanSettle ==
  \A id \in Created :
    (invoices[id].status = "Paid"
       /\ timeoutReached(now, invoices[id].paymentTimeStamp, paymentTimeout)) =>
      /\ confirmPayment(id, invoices[id].client, {}).result = "ok"
      /\ autoReleasePayment(id, {}).result = "ok"

\* the settling step pays the fee and the emitter's share once; in the state
\* it leaves, the other call fails on the status and moves nothing
C15_SettledOnce ==
  \A id \in Created : \A c \in Address :
    (c = invoices[id].client /\ invoices[id].status = "Paid"
       /\ invoices'[id].status \in Terminal) =>
      LET fee == platformFee(invoices[id].amount, platformFeePercent) IN
      /\ balance'[This] = balance[This] - invoices[id].amount
      /\ balance'[platformWallet] = balance[platformWallet] + fee
      /\ balance'[invoices[id].emitter] =
           balance[invoices[id].emitter] + (invoices[id].amount - fee)
      /\ invoices'[id].status = "Validated" =>
           \A r \in Refusals :
             (LET out == autoReleasePayment(id, r)
              IN out.result = MustBePaid /\ out.result \in StateConflict
                 /\ Untouched(out) /\ out.events = << >>)'
      /\ invoices'[id].status = "Released" =>
           \A r \in Refusals :
             (LET out == confirmPayment(id, c, r)
              IN out.result = MustBePaid /\ out.result \in StateConflict
                 /\ Untouched(out) /\ out.events = << >>)'

\* C15: autoReleasePayment and the client's confirmPayment aimed together at
\* one Paid invoice past its deadline are run one after the other: the first
\* commits (Released or Validated, the fee and the emitter's share paid once),
\* the second fails with a state conflict and moves no funds, and the invoice
\* keeps the status the first one gave it.
C15_ReleaseOrConfirm == [] C15_EitherCanSettle /\ [][C15_SettledOnce]_vars

\* past the deadline: a Validated invoice on which the release is refused and
\* a Released one on which the confirmation is refused
C15_Witness ==
  /\ \E id \in Created :
       /\ invoices[id].status = "Validated" /\ invoices[id].amount = 75
       /\ timeoutReached(now, invoices[id].paymentTimeStamp, paymentTimeout)
       /\ autoReleasePayment(id, {}).result = MustBePaid
  /\ \E id \in Created :
       /\ invoices[id].status = "Released" /\ invoices[id].amount = 30
       /\ invoices[id].paymentTimeStamp > 0
       /\ confirmPayment(id, invoices[id].client, {}).result = MustBePaid

-----------------------------------------------------------------------------
(* C16.  Two operations on one invoice.  A transaction is one step, and      *)
(* transfer() hands the recipient too little gas to call back into the       *)
(* contract, so a call starts in a state left by a whole transaction: the    *)
(* two calls take effect in one of their two orders.  What the code decides  *)
(* is what the second call meets.                                            *)

\* the state a call starts in: the amount of every Paid or Disputed invoice is
\* in the contract, alone and together with the other held invoices, and no
\* payout to willing recipients fails for lack of funds
C16_ObservedInEscrow ==
  \A id \in Created :
    invoices[id].status \in {"Paid", "Disputed"} =>
      /\ balance[This] >= invoices[id].amount
      /\ \A other \in Created \ {id} :
           balance[This] >= invoices[id].amount + Held(other)
      /\ \A a \in AttemptsOn(id) :
           a.out.result = TransferFailed =>
             \E r \in Refusals \ {{}} :
               a.out \in {confirmPayment(id, a.sender, r), autoReleasePayment(id, r),
                          resolveDispute(id, TRUE, a.sender, r),
                          resolveDispute(id, FALSE, a.sender, r)}

\* a step that moves an invoice out of a status leaves every operation that
\* starts from that status refused, whoever calls it: of two calls that need
\* the same status only the first goes through
C16_SecondIsRefused ==
  \A id \in Created : \A st \in Status :
    (st = invoices[id].status /\ invoices'[id].status # st) =>
      (\A a \in AttemptsOn(id) :
         SourceOf(a.op) = st =>
           /\ a.out.result # "ok"
           /\ Untouched(a.out)
           /\ a.out.events = << >>)'

\* C16: two state-changing operations called together on one invoice take
\* effect one after the other; when both start from the same status the second
\* is refused and changes nothing, and every call starts in a state where the
\* amount of each Paid or Disputed invoice is still held by the contract.
C16_Serial == [] C16_ObservedInEscrow /\ [][C16_SecondIsRefused]_vars

\* an invoice paid after another one was paid and disputed: both amounts are
\* held, and a second payInvoice by the client is refused
C16_Witness ==
  \E id \in Created, other \in Created :
    /\ id # other
    /\ invoices[id].status = "Paid" /\ invoices[id].amount = 30
    /\ invoices[other].status = "Disputed" /\ invoices[other].amount = 75
    /\ invoices[id].paymentTimeStamp > invoices[other].paymentTimeStamp
    /\ balance[This] = 105
    /\ payInvoice(id, invoices[id].client, 30).result = MustBePending

-----------------------------------------------------------------------------
(* C17.  A failed transfer aborts the whole operation.                       *)

\* the accounts an operation on the invoice sends to
Recipients(op, id) ==
  IF op \in {"confirmPayment", "autoReleasePayment"}
    THEN {platformWallet, invoices[id].emitter}
  ELSE IF op = "resolveDispute(true)" THEN {invoices[id].emitter}
  ELSE IF op = "resolveDispute(false)" THEN {invoices[id].client}
  ELSE {}

\* the calls that get as far as their transfers, with the refusing accounts
PayoutsOn(id) ==
  {[op |-> "confirmPayment", refusing |-> r,
    out |-> confirmPayment(id, invoices[id].client, r)] : r \in Refusals}
  \cup {[op |-> "autoReleasePayment", refusing |-> r,
         out |-> autoReleasePayment(id, r)] : r \in Refusals}
  \cup {[op |-> "resolveDispute(true)", refusing |-> r,
         out |-> resolveDispute(id, TRUE, arbitrator, r)] : r \in Refusals}
  \cup {[op |-> "resolveDispute(false)", refusing |-> r,
         out |-> resolveDispute(id, FALSE, arbitrator, r)] : r \in Refusals}

\* C17: when a transfer inside confirmPayment, autoReleasePayment or
\* resolveDispute fails (also the transfer to the emitter after the fee went
\* to the platform wallet), the whole call fails: the invoice's status and the
\* balances of the contract, the platform wallet, the emitter and the client
\* are as before the call, and no event is emitted.
C17_TransferFailureAborts ==
  \A id \in Created : \A p \in PayoutsOn(id) :
    /\ (/\ invoices[id].status = SourceOf(p.op)
        /\ p.op = "autoReleasePayment" =>
             timeoutReached(now, invoices[id].paymentTimeStamp, paymentTimeout)
        /\ Recipients(p.op, id) \cap p.refusing # {}) =>
         p.out.result = TransferFailed
    /\ p.out.result = TransferFailed =>
         /\ p.out.invoices[id].status = invoices[id].status
         /\ Untouched(p.out)
         /\ \A who \in {This, platformWallet, invoices[id].emitter, invoices[id].client} :
              Gain(p.out, who) = 0
         /\ p.out.events = << >>

\* a Paid invoice with a fee above zero whose emitter refuses the money: the
\* fee transfer would go through, the emitter's does not, the call fails
C17_Witness ==
  \E id \in Created :
    LET refusing == {invoices[id].emitter, invoices[id].client}
        fee == platformFee(invoices[id].amount, platformFeePercent)
    IN /\ invoices[id].status = "Paid"
       /\ refusing \in Refusals
       /\ fee > 0
       /\ canTransfer(balance, platformWallet, fee, refusing)
       /\ confirmPayment(id, invoices[id].client, refusing).result = TransferFailed
       /\ confirmPayment(id, invoices[id].client, {}).result = "ok"

-----------------------------------------------------------------------------
(* C18.  The fields fixed at creation.                                       *)

Fixed(invoice) ==
  <<invoice.invoiceId, invoice.amount, invoice.client, invoice.emitter>>

\* no call on an invoice, and no creation, touches the fixed fields of the
\* invoices that exist
C18_NoCallRewrites ==
  /\ \A id \in Created : \A a \in AttemptsOn(id) : \A other \in Created :
       Fixed(a.out.invoices[other]) = Fixed(invoices[other])
  /\ invoiceCount < MaxInvoices =>
       \A sender \in Address, _client \in Address, _amount \in MsgValues :
         \A id \in Created :
           Fixed(createInvoice(sender, _client, _amount).invoices[id])
             = Fixed(invoices[id])

C18_StepKeepsFixed ==
  \A id \in Created : Fixed(invoices'[id]) = Fixed(invoices[id])

\* C18: no operation changes the id, the amount, the client or the emitter of
\* an existing invoice: from its creation on, the four fields are the same in
\* every state.
C18_FixedFields == [] C18_NoCallRewrites /\ [][C18_StepKeepsFixed]_vars

\* an invoice paid at the later time, beside a settled one created the other
\* way round (its client is the first one's emitter)
C18_Witness ==
  \E id \in Created, other \in Created :
    /\ invoices[id].status = "Paid" /\ invoices[id].paymentTimeStamp = 8
    /\ Fixed(invoices[id]) = <<id, 75, "client", "emitter">>
    /\ invoices[other].status \in Terminal
    /\ Fixed(invoices[other]) = <<other, 30, "emitter", "client">>

-----------------------------------------------------------------------------
(* C19.  Invoice ids.  createInvoice has no return value: the id is the      *)
(* counter after the increment, which keys the record and goes out in        *)
(* InvoiceCreated.                                                           *)

\* the ids given so far are 1 .. invoiceCount, each keying its own record; the
\* next creation takes an id above all of them and leaves their records
C19_FreshId ==
  /\ \A id \in Created : invoices[id].invoiceId = id
  /\ \A id \in InvoiceIds \ Created : invoices[id] = ZeroInvoice
  /\ invoiceCount < MaxInvoices =>
       \A sender \in Address, _client \in Address, _amount \in MsgValues :
         LET r == createInvoice(sender, _client, _amount) IN
           /\ \A id \in Created : r.invoiceCount > id /\ r.invoices[id] = invoices[id]
           /\ r.invoiceCount = invoiceCount + 1
           /\ r.invoices[r.invoiceCount].invoiceId = r.invoiceCount
           /\ r.events[1].invoiceId = r.invoiceCount

\* the counter never goes back, and a creating step leaves the earlier records
C19_CounterGrows ==
  /\ invoiceCount' >= invoiceCount
  /\ invoiceCount' # invoiceCount =>
       /\ invoiceCount' = invoiceCount + 1
       /\ \A id \in Created : invoices'[id] = invoices[id]

\* C19: every createInvoice assigns an id strictly greater than every id
\* assigned before it (ids are unique and never reused, creations being run
\* one after the other), and leaves every earlier invoice unchanged.
C19_IdsIncrease == [] C19_FreshId /\ [][C19_CounterGrows]_vars

\* a second invoice was created while the first one was already paid
C19_Witness ==
  /\ invoiceCount = 2
  /\ invoices[1].status = "Disputed" /\ invoices[1].amount = 75
  /\ invoices[2].status = "Pending" /\ invoices[2].invoiceId = 2

-----------------------------------------------------------------------------
(* C20.  createInvoice is open to every caller.                              *)

-----------------------------------------------------------------------------
(* C21.  Amounts of the invoices in the registry.                            *)

\* C21 as stated: every invoice in the registry has a positive amount, and
\* createInvoice with amount 0 is rejected and creates no invoice.  createInvoice
\* has no require: the call with amount 0 goes through and the record is kept.
C21_AmountsPositive ==
  /\ \A id \in Created : invoices[id].amount > 0
  /\ invoiceCount < MaxInvoices =>
       \A sender \in Address, _client \in Address :
         LET r == createInvoice(sender, _client, 0) IN
           r.result # "ok" /\ r.invoices = invoices /\ r.invoiceCount = invoiceCount

-----------------------------------------------------------------------------
(* C22.  The range of the configuration.                                     *)

\* values tried on the setters, on both sides of their limits
FeesTried == 0 .. 12
TimeoutsTried == {0, Day, 2 * Day, 7 * Day}

\* C22: in every reachable state, from the initial configuration on and after
\* any sequence of admin operations, platformFeePercent is within 0..10 and
\* paymentTimeout is at least one day; no setter call that goes through
\* installs a value outside of the range.
C22_ConfigInRange ==
  /\ platformFeePercent \in 0 .. 10
  /\ paymentTimeout >= Day
  /\ \A sender \in Address :
       /\ \A f \in FeesTried :
            setPlatformFeePercent(sender, f).platformFeePercent \in 0 .. 10
       /\ \A t \in TimeoutsTried :
            setPaymentTimeout(sender, t).paymentTimeout >= Day

\* the owner has moved both values to their limits, and the values beyond the
\* limits are refused
C22_Witness ==
  /\ platformFeePercent = 10
  /\ paymentTimeout = Day
  /\ setPlatformFeePercent(owner, 11).result = FeeTooHigh
  /\ setPaymentTimeout(owner, 0).result = TimeoutTooShort

-----------------------------------------------------------------------------
(* C23.  The admin operations are the owner's.                               *)

\* C23: setArbitrator, setPlatformFeePercent and setPaymentTimeout take effect
\* only when called by the owner: a call by any other address, and an owner's
\* call with a fee above 10 or a timeout below one day, fails and leaves the
\* arbitrator, the fee and the timeout as they were; the owner's call with a
\* value in range installs it.
C23_OwnerOnly ==
  \A sender \in Address :
    /\ \A a \in Address :
         LET r == setArbitrator(sender, a) IN
           IF sender = owner
             THEN r.result = "ok" /\ r.arbitrator = a
             ELSE r.result = OnlyOwner /\ r.result \in AuthorizationError
                  /\ r.arbitrator = arbitrator /\ r.events = << >>
    /\ \A f \in FeesTried :
         LET r == setPlatformFeePercent(sender, f) IN
           IF sender = owner /\ f <= 10
             THEN r.result = "ok" /\ r.platformFeePercent = f
             ELSE /\ r.result = (IF sender = owner THEN FeeTooHigh ELSE OnlyOwner)
                  /\ r.platformFeePercent = platformFeePercent
    /\ \A t \in TimeoutsTried :
         LET r == setPaymentTimeout(sender, t) IN
           IF sender = owner /\ t >= Day
             THEN r.result = "ok" /\ r.paymentTimeout = t
             ELSE /\ r.result = (IF sender = owner THEN TimeoutTooShort ELSE OnlyOwner)
                  /\ r.paymentTimeout = paymentTimeout

\* the owner has changed all three settings; the arbitrator in office and the
\* one replaced are refused each of the three operations
C23_Witness ==
  /\ arbitrator = "owner" /\ platformFeePercent = 10 /\ paymentTimeout = Day
  /\ \A sender \in {initialArbitrator, platformWallet, "client", "emitter"} :
       /\ setArbitrator(sender, sender).result = OnlyOwner
       /\ setPlatformFeePercent(sender, 2).result = OnlyOwner
       /\ setPaymentTimeout(sender, 7 * Day).result = OnlyOwner

-----------------------------------------------------------------------------
(* C24.  Paying again after a refund.  resolveDispute(false) leaves          *)
(* paymentTimeStamp as it was, so a Pending invoice with a timestamp is one  *)
(* that was refunded.                                                        *)

Refunded(id) ==
  invoices[id].status = "Pending" /\ invoices[id].paymentTimeStamp # 0

\* C24 as stated: after resolveDispute(false) returned an invoice to Pending,
\* its client can pay it again with the exact amount: the invoice becomes Paid
\* with paymentTimeStamp equal to the time of the new payment.  The balance
\* test of payInvoice refuses the client who holds the amount but not twice
\* the amount.
C24_RepayAfterRefund ==
  \A id \in Created :
    (Refunded(id) /\ invoices[id].amount <= balance[invoices[id].client]) =>
      LET out == payInvoice(id, invoices[id].client, invoices[id].amount) IN
        /\ out.result = "ok"
        /\ out.invoices[id].status = "Paid"
        /\ out.invoices[id].paymentTimeStamp = now
        /\ out.balance[This] = balance[This] + invoices[id].amount

-----------------------------------------------------------------------------
(* C25.  Ids that were never created.  The mapping gives the zero record     *)
(* for them: no client, no emitter, amount 0, status Pending.                *)

NeverCreated == InvoiceIds \ Created

\* C25: payInvoice, confirmPayment, autoReleasePayment, disputeByClient,
\* disputeByEmitter and resolveDispute called with an id that was never
\* created fail for every caller, the arbitrator included, and change nothing:
\* no record is written and no funds move.
C25_UnknownIdRejected ==
  \A id \in NeverCreated :
    /\ invoices[id] = ZeroInvoice
    /\ \A a \in AttemptsOn(id) :
         /\ a.out.result # "ok"
         /\ Untouched(a.out)
         /\ a.out.events = << >>
         /\ a.op \in {"payInvoice", "confirmPayment", "disputeByClient"} =>
              a.out.result = OnlyClient
         /\ a.op = "disputeByEmitter" => a.out.result = OnlyEmitter
         /\ a.op = "autoReleasePayment" => a.out.result = MustBePaid
         /\ a.sender = arbitrator =>
              /\ a.op = "resolveDispute(true)" => a.out.result = NotInDispute
              /\ a.op = "resolveDispute(false)" => a.out.result = NotInDispute

\* the contract holds money, the time of every deadline has come, and id 2 was
\* never created: a payment of zero, the release and the arbitrator's
\* resolution on id 2 are refused
C25_Witness ==
  /\ invoiceCount = 1 /\ 2 \in NeverCreated
  /\ balance[This] = 75 /\ now = 8
  /\ payInvoice(2, "client", 0).result = OnlyClient
  /\ autoReleasePayment(2, {}).result = MustBePaid
  /\ resolveDispute(2, FALSE, arbitrator, {}).result = NotInDispute

-----------------------------------------------------------------------------
(* C26.  Operations on distinct invoices.  The second of two calls runs in   *)
(* the state the first one left: a call is compared before and after a step  *)
(* that acted on another invoice.                                            *)

\* a call, apart from the invoice it is made on
Calls ==
  {[op |-> "payInvoice", sender |-> s, value |-> v, refusing |-> {}] :
     s \in Address, v \in MsgValues}
  \cup {[op |-> o, sender |-> s, value |-> 0, refusing |-> r] :
          o \in {"confirmPayment", "resolveDispute(true)", "resolveDispute(false)"},
          s \in Address, r \in Refusals}
  \cup {[op |-> "autoReleasePayment", sender |-> "owner", value |-> 0,
         refusing |-> r] : r \in Refusals}
  \cup {[op |-> o, sender |-> s, value |-> 0, refusing |-> {}] :
          o \in {"disputeByClient", "disputeByEmitter"}, s \in Address}

\* a caller can send only what they have
Possible(c) == c.value <= balance[c.sender]

Outcome(c, id) ==
  CASE c.op = "payInvoice" -> payInvoice(id, c.sender, c.value)
    [] c.op = "confirmPayment" -> confirmPayment(id, c.sender, c.refusing)
    [] c.op = "autoReleasePayment" -> autoReleasePayment(id, c.refusing)
    [] c.op = "disputeByClient" -> disputeByClient(id, c.sender)
    [] c.op = "disputeByEmitter" -> disputeByEmitter(id, c.sender)
    [] c.op = "resolveDispute(true)" -> resolveDispute(id, TRUE, c.sender, c.refusing)
    [] c.op = "resolveDispute(false)" -> resolveDispute(id, FALSE, c.sender, c.refusing)

\* what a call does to the accounts
Moves(out, bal) == [a \in Address \cup {This} |-> out.balance[a] - bal[a]]

\* no call on an invoice writes the record of another one
C26_OthersUntouched ==
  \A id \in Created : \A c \in Calls :
    Possible(c) =>
      \A other \in InvoiceIds \ {id} :
        Outcome(c, id).invoices[other] = invoices[other]

\* C26 as stated: two operations on distinct invoices commute, in either order
\* they give the same invoice states and balances: a call on one invoice has
\* the same result and the same effect before and after a step on another.
C26_SameResultEitherOrder ==
  \A id1 \in InvoiceIds : \A id2 \in Created \ {id1} :
    invoices'[id1] # invoices[id1] =>
      \A c \in Calls :
        Possible(c) =>
          /\ Possible(c)'
          /\ (Outcome(c, id2).result)' = Outcome(c, id2).result

C26_CommuteWhenBothSucceed ==
  \A id1 \in InvoiceIds : \A id2 \in Created \ {id1} :
    invoices'[id1] # invoices[id1] =>
      /\ invoices'[id2] = invoices[id2]
      /\ \A c \in Calls :
           /\ (Possible(c) /\ Possible(c)' /\ Outcome(c, id2).result = "ok"
                 /\ (Outcome(c, id2).result)' = "ok") =>
                /\ (Outcome(c, id2).invoices[id2])' = Outcome(c, id2).invoices[id2]
                /\ (Moves(Outcome(c, id2), balance))' = Moves(Outcome(c, id2), balance)
           /\ c.op # "payInvoice" =>
                (Outcome(c, id2).result)' = Outcome(c, id2).result

-----------------------------------------------------------------------------
(* C27.  The timeout path.  A second machine: time keeps passing, somebody   *)
(* keeps calling autoReleasePayment on every invoice, and every recipient    *)
(* accepts its transfer.  The client may pay, confirm or dispute and the     *)
(* emitter may dispute, but nothing obliges them to; the arbitrator does     *)
(* nothing.  The owner may shorten or lengthen the timeout at any time.      *)

\* time points far enough apart for every deadline to be met
LiveTimePoints == {1, 8, 15, 22}
LiveTimeouts == {Day, 14 * Day}
\* the runs are finite in time: a payment is made only while its deadline,
\* under every timeout, lies within them
DeadlineInReach ==
  \E t \in LiveTimePoints : \A d \in LiveTimeouts : t >= now + d

LiveCreateInputs == {<<"emitter", "client", 30>>, <<"emitter", "client", 75>>}

LiveCreateInvoice ==
  \E in \in LiveCreateInputs :
    /\ invoiceCount < MaxInvoices
    /\ LET r == createInvoice(in[1], in[2], in[3]) IN
         /\ invoices' = r.invoices
         /\ invoiceCount' = r.invoiceCount
    /\ UNCHANGED <<authVars, arbitrator, platformFeePercent, paymentTimeout, balance, now>>

LivePayInvoice ==
  \E id \in Created, value \in MsgValues :
    /\ DeadlineInReach
    /\ value <= balance[invoices[id].client]
    /\ LET r == payInvoice(id, invoices[id].client, value) IN
         /\ invoices' = r.invoices
         /\ balance' = r.balance
    /\ UNCHANGED <<authVars, invoiceCount, arbitrator, platformFeePercent, paymentTimeout, now>>

LiveConfirmPayment ==
  \E id \in Created :
    /\ LET r == confirmPayment(id, invoices[id].client, {}) IN
         /\ invoices' = r.invoices
         /\ balance' = r.balance
    /\ UNCHANGED <<authVars, invoiceCount, arbitrator, platformFeePercent, paymentTimeout, now>>

LiveDispute ==
  \E id \in Created :
    /\ \/ invoices' = disputeByClient(id, invoices[id].client).invoices
       \/ invoices' = disputeByEmitter(id, invoices[id].emitter).invoices
    /\ UNCHANGED <<authVars, invoiceCount, arbitrator, platformFeePercent, paymentTimeout,
                   balance, now>>

LiveSetPaymentTimeout ==
  \E _newTimeout \in LiveTimeouts :
    /\ paymentTimeout' = setPaymentTimeout(owner, _newTimeout).paymentTimeout
    /\ UNCHANGED <<authVars, invoices, invoiceCount, arbitrator, platformFeePercent,
                   balance, now>>

\* one call of autoReleasePayment on the invoice, the recipients accepting
Scheduler(id) ==
  /\ LET r == autoReleasePayment(id, {}) IN
       /\ invoices' = r.invoices
       /\ balance' = r.balance
  /\ UNCHANGED <<authVars, invoiceCount, arbitrator, platformFeePercent, paymentTimeout, now>>

LiveAutoRelease == \E id \in InvoiceIds : Scheduler(id)

LiveTick ==
  /\ \E t \in LiveTimePoints : t > now
  /\ now' = CHOOSE t \in LiveTimePoints :
              t > now /\ \A u \in LiveTimePoints : u > now => t <= u
  /\ UNCHANGED <<authVars, invoices, invoiceCount, arbitrator, platformFeePercent,
                 paymentTimeout, balance>>

LiveNext ==
  \/ LiveCreateInvoice
  \/ LivePayInvoice
  \/ LiveConfirmPayment
  \/ LiveDispute
  \/ LiveSetPaymentTimeout
  \/ LiveAutoRelease
  \/ LiveTick

LiveSpec ==
  /\ Init
  /\ [][LiveNext]_allVars
  /\ WF_vars(LiveTick)
  /\ \A id \in InvoiceIds : WF_vars(Scheduler(id))

-----------------------------------------------------------------------------
(* C28.  The earlier version of the contract (src/unnamed/part_000): the fee *)
(* leaves at payment time, the client releases the payment, and there are    *)
(* no timestamp, no timeout and no Validated status.  Its machine uses the   *)
(* same variables; paymentTimeStamp, paymentTimeout and now stay as Init     *)
(* leaves them.                                                              *)

MustBeCompleted == "Payment must be completed first"
\* the earlier onlyArbitrator reverts with the client's message
OnlyArbitrator_part000 == "Only client can perform this action"

payInvoice_part000(_invoiceId, sender, value, refusing) ==
  LET invoice == invoices[_invoiceId]
      held == receiveValue(balance, sender, value)
      fee == (value * platformFeePercent) \div 100
      amountToEmitter == value - fee
  IN IF sender # invoice.client THEN Revert(OnlyClient)
     ELSE IF invoice.status # "Pending" THEN Revert(MustBePending)
     ELSE IF value # invoice.amount THEN Revert(IncorrectAmount)
     ELSE IF ~ canTransfer(held, platformWallet, fee, refusing)
       THEN Revert(TransferFailed)
     ELSE Commit([invoices EXCEPT ![_invoiceId].status = "Paid"],
                 transfer(held, platformWallet, fee),
                 << [name |-> "PaymentMade", invoiceId |-> _invoiceId,
                     amount |-> amountToEmitter, fee |-> fee] >>)

disputeInvoiceByClient(_invoiceId, sender) ==
  LET invoice == invoices[_invoiceId]
  IN IF sender # invoice.client THEN Revert(OnlyClient)
     ELSE IF invoice.status # "Paid" THEN Revert(MustBeInProgress)
     ELSE Commit([invoices EXCEPT ![_invoiceId].status = "Disputed"],
                 balance,
                 << [name |-> "PaymentDisputed", invoiceId |-> _invoiceId,
                     disputor |-> sender] >>)

disputeInvoiceByEmitter(_invoiceId, sender) ==
  LET invoice == invoices[_invoiceId]
  IN IF sender # invoice.emitter THEN Revert(OnlyEmitter)
     ELSE IF invoice.status # "Paid" THEN Revert(MustBeInProgress)
     ELSE Commit([invoices EXCEPT ![_invoiceId].status = "Disputed"],
                 balance,
                 << [name |-> "PaymentDisputed", invoiceId |-> _invoiceId,
                     disputor |-> sender] >>)

releasePayment(_invoiceId, sender, refusing) ==
  LET invoice == invoices[_invoiceId]
  IN IF sender # invoice.client THEN Revert(OnlyClient)
     ELSE IF invoice.status # "Paid" THEN Revert(MustBeCompleted)
     ELSE IF ~ canTransfer(balance, invoice.emitter, invoice.amount, refusing)
       THEN Revert(TransferFailed)
     ELSE Commit([invoices EXCEPT ![_invoiceId].status = "Released"],
                 transfer(balance, invoice.emitter, invoice.amount),
                 << [name |-> "PaymentReleased", invoiceId |-> _invoiceId,
                     amount |-> invoice.amount] >>)

resolveDispute_part000(_invoiceId, releaseToEmitter, sender, refusing) ==
  LET invoice == invoices[_invoiceId]
      to == IF releaseToEmitter THEN invoice.emitter ELSE invoice.client
  IN IF sender # arbitrator THEN Revert(OnlyArbitrator_part000)
     ELSE IF invoice.status # "Disputed" THEN Revert(NotInDispute)
     ELSE IF ~ canTransfer(balance, to, invoice.amount, refusing)
       THEN Revert(TransferFailed)
     ELSE Commit([invoices EXCEPT ![_invoiceId].status =
                    IF releaseToEmitter THEN "Released" ELSE "Pending"],
                 transfer(balance, to, invoice.amount),
                 << [name |-> "DisputeResolved", invoiceId |-> _invoiceId,
                     releasedToEmitter |-> releaseToEmitter] >>)

\* inputs of the earlier machine
Fees_part000 == {0, 10}
Refusals_part000 == {{}, {"emitter", "client"}}

CreateInvoice_part000 ==
  \E in \in CreateInputs :
    /\ invoiceCount < MaxInvoices
    /\ LET r == createInvoice(in[1], in[2], in[3]) IN
         /\ invoices' = r.invoices
         /\ invoiceCount' = r.invoiceCount
    /\ UNCHANGED <<authVars, arbitrator, platformFeePercent, paymentTimeout, balance, now>>

PayInvoice_part000 ==
  \E id \in InvoiceIds, sender \in Address, value \in MsgValues,
     refusing \in Refusals_part000 :
    /\ value <= balance[sender]
    /\ LET r == payInvoice_part000(id, sender, value, refusing) IN
         /\ invoices' = r.invoices
         /\ balance' = r.balance
    /\ UNCHANGED <<authVars, invoiceCount, arbitrator, platformFeePercent, paymentTimeout, now>>

DisputeInvoiceByClient ==
  \E id \in InvoiceIds, sender \in Address :
    /\ invoices' = disputeInvoiceByClient(id, sender).invoices
    /\ UNCHANGED <<authVars, invoiceCount, arbitrator, platformFeePercent, paymentTimeout,
                   balance, now>>

DisputeInvoiceByEmitter ==
  \E id \in InvoiceIds, sender \in Address :
    /\ invoices' = disputeInvoiceByEmitter(id, sender).invoices
    /\ UNCHANGED <<authVars, invoiceCount, arbitrator, platformFeePercent, paymentTimeout,
                   balance, now>>

ReleasePayment ==
  \E id \in InvoiceIds, sender \in Address, refusing \in Refusals_part000 :
    /\ LET r == releasePayment(id, sender, refusing) IN
         /\ invoices' = r.invoices
         /\ balance' = r.balance
    /\ UNCHANGED <<authVars, invoiceCount, arbitrator, platformFeePercent, paymentTimeout, now>>

ResolveDispute_part000 ==
  \E id \in InvoiceIds, releaseToEmitter \in BOOLEAN, sender \in Address,
     refusing \in Refusals_part000 :
    /\ LET r == resolveDispute_part000(id, releaseToEmitter, sender, refusing) IN
         /\ invoices' = r.invoices
         /\ balance' = r.balance
    /\ UNCHANGED <<authVars, invoiceCount, arbitrator, platformFeePercent, paymentTimeout, now>>

SetPlatformFeePercent_part000 ==
  \E sender \in Address, _newFee \in Fees_part000 :
    /\ platformFeePercent' = setPlatformFeePercent(sender, _newFee).platformFeePercent
    /\ UNCHANGED <<authVars, invoices, invoiceCount, arbitrator, paymentTimeout, balance, now>>

Next_part000 ==
  \/ CreateInvoice_part000
  \/ PayInvoice_part000
  \/ DisputeInvoiceByClient
  \/ DisputeInvoiceByEmitter
  \/ ReleasePayment
  \/ ResolveDispute_part000
  \/ SetPlatformFeePercent_part000

Spec_part000 == Init /\ [][Next_part000]_allVars

\* C28 as stated: in the earlier version releasePayment by the client on a
\* Paid invoice succeeds, transfers the full invoice amount to the emitter out
\* of that invoice's escrowed funds and sets the status to Released.  What the
\* contract kept of the invoice is the amount less the fee that payInvoice
\* sent on: the transfer of the full amount fails, or is paid out of the money
\* of another invoice.
C28_ReleasePaysFullAmount ==
  \A id \in Created :
    invoices[id].status = "Paid" =>
      LET out == releasePayment(id, invoices[id].client, {}) IN
        /\ out.result = "ok"
        /\ out.invoices[id].status = "Released"
        /\ Gain(out, invoices[id].emitter) = invoices[id].amount
        /\ Gain(out, This) = - invoices[id].amount

-----------------------------------------------------------------------------
(* C29.  What a dispute does.                                                *)

\* the two parties' dispute calls on the invoice
DisputesOn(id) ==
  {disputeByClient(id, invoices[id].client),
   disputeByEmitter(id, invoices[id].emitter)}

\* C29: disputeByClient by the client and disputeByEmitter by the emitter on a
\* Paid invoice set the status to Disputed, move no funds (the whole amount
\* stays in the contract) and leave paymentTimeStamp as it is; on the invoice
\* once Disputed, a dispute by either party fails with a state conflict.
C29_DisputeFreezes ==
  \A id \in Created : \A out \in DisputesOn(id) :
    /\ invoices[id].status = "Paid" =>
         /\ out.result = "ok"
         /\ out.invoices =
              [invoices EXCEPT ![id] = [invoices[id] EXCEPT !.status = "Disputed"]]
         /\ out.invoices[id].paymentTimeStamp = invoices[id].paymentTimeStamp
         /\ out.balance = balance
         /\ balance[This] >= invoices[id].amount
         /\ out.events[1].name = "PaymentDisputed"
    /\ invoices[id].status = "Disputed" =>
         /\ out.result = MustBeInProgress
         /\ out.result \in StateConflict
         /\ Untouched(out)

\* an invoice paid at time 1 and found Disputed at time 8, with its amount in
\* the contract and its time of payment kept, on which both parties' disputes
\* are refused; beside it a Paid one on which both would go through
C29_Witness ==
  \E id \in Created, other \in Created :
    /\ invoices[id].status = "Disputed" /\ invoices[id].amount = 75
    /\ invoices[id].paymentTimeStamp = 1 /\ now = 8
    /\ balance[This] = 75 + 30
    /\ \A out \in DisputesOn(id) : out.result = MustBeInProgress
    /\ invoices[other].status = "Paid" /\ invoices[other].amount = 30
    /\ \A out \in DisputesOn(other) : out.result = "ok"

-----------------------------------------------------------------------------
(* C30.  A dispute after the deadline, and the way out of Disputed.          *)

\* past the deadline of a Paid invoice a dispute still goes through; on a
\* Disputed invoice autoReleasePayment is refused on the status, before the
\* time is looked at, and the only calls that go through are the arbitrator's
\* resolveDispute
C30_DisputeBeatsDeadline ==
  \A id \in Created :
    /\ (invoices[id].status = "Paid"
          /\ timeoutReached(now, invoices[id].paymentTimeStamp, paymentTimeout)) =>
         \A out \in DisputesOn(id) :
           out.result = "ok" /\ out.invoices[id].status = "Disputed"
    /\ invoices[id].status = "Disputed" =>
         \A a \in AttemptsOn(id) :
           /\ a.op = "autoReleasePayment" =>
                a.out.result = MustBePaid /\ Untouched(a.out)
           /\ a.out.result = "ok" =>
                /\ a.op \in {"resolveDispute(true)", "resolveDispute(false)"}
                /\ a.sender = arbitrator

\* a Disputed invoice stays Disputed or goes where resolveDispute sends it,
\* with the amount sent to the emitter or back to the client, whatever the time
C30_OnlyResolutionLeaves ==
  \A id \in Created :
    (invoices[id].status = "Disputed" /\ invoices'[id].status # "Disputed") =>
      \/ /\ invoices'[id].status = "Released"
         /\ balance'[invoices[id].emitter] =
              balance[invoices[id].emitter] + invoices[id].amount
      \/ /\ invoices'[id].status = "Pending"
         /\ balance'[invoices[id].client] =
              balance[invoices[id].client] + invoices[id].amount

\* C30: a dispute by the client or the emitter on a Paid invoice whose
\* auto-release deadline has passed (no release having been committed)
\* succeeds, and from then on autoReleasePayment fails however much time
\* passes: a Disputed invoice leaves that status only through resolveDispute
\* by the arbitrator.
C30_DisputedWaitsForArbitrator ==
  [] C30_DisputeBeatsDeadline /\ [][C30_OnlyResolutionLeaves]_vars

\* past the deadline: a Paid invoice that can be released or disputed, and a
\* Disputed one, its deadline passed too, whose release is refused
C30_Witness ==
  \E id \in Created, other \in Created :
    /\ invoices[id].status = "Paid" /\ invoices[id].amount = 30
    /\ timeoutReached(now, invoices[id].paymentTimeStamp, paymentTimeout)
    /\ autoReleasePayment(id, {}).result = "ok"
    /\ disputeByEmitter(id, invoices[id].emitter).result = "ok"
    /\ invoices[other].status = "Disputed" /\ invoices[other].amount = 75
    /\ timeoutReached(now, invoices[other].paymentTimeStamp, paymentTimeout)
    /\ autoReleasePayment(other, {}).result = MustBePaid


-----------------------------------------------------------------------------
(* C31.  The fee of a settlement is the fee in force when it executes.       *)

\* the PaymentReleased event of a settlement
ReleasedBy(out) == out.events[Len(out.events)]

\* every settlement that goes through charges floor(amount * platformFeePercent
\* / 100) with the percentage of the state it executes in, pays it to the
\* platform wallet, and the fee and the emitter's share add up to the amount
C31_ChargesCurrentPercent ==
  \A id \in Created :
    invoices[id].status = "Paid" =>
      \A out \in Settlements(id) :
        out.result = "ok" =>
          /\ ReleasedBy(out).fee = platformFee(invoices[id].amount, platformFeePercent)
          /\ Gain(out, platformWallet) = ReleasedBy(out).fee
          /\ ReleasedBy(out).fee + ReleasedBy(out).amount = invoices[id].amount

\* a step that changes platformFeePercent leaves every Paid invoice as it is,
\* and the settlements of that invoice right after the step charge the new
\* percentage: where the old and the new percentage give different fees, the
\* fee is no longer the one the percentage at payment would have given
C31_NewPercentApplies ==
  \A old \in FeesTried :
    (old = platformFeePercent /\ platformFeePercent' # old) =>
      \A id \in Created :
        invoices[id].status = "Paid" =>
          /\ invoices'[id] = invoices[id]
          /\ \A amount \in MsgValues :
               amount = invoices[id].amount =>
                 (\A out \in Settlements(id) :
                    out.result = "ok" =>
                      /\ ReleasedBy(out).fee = platformFee(amount, platformFeePercent)
                      /\ ReleasedBy(out).fee + ReleasedBy(out).amount = amount
                      /\ platformFee(amount, old)
                           # platformFee(amount, platformFeePercent) =>
                           ReleasedBy(out).fee # platformFee(amount, old))'

\* C31: the fee charged by confirmPayment or autoReleasePayment is computed
\* from the platformFeePercent in force when the settlement executes, not the
\* one in force when the invoice was created or paid: a successful
\* setPlatformFeePercent between payment and settlement changes the fee, and
\* fee + amountToEmitter = amount still holds.
C31_FeeAtSettlement ==
  [] C31_ChargesCurrentPercent /\ [][C31_NewPercentApplies]_vars

\* the client paid an invoice of 75 and then one of 30; the second was
\* confirmed without a fee (2 percent of 30), the percentage is 10 since, and
\* the first, still Paid, is now settled with a fee of 7 instead of 1
C31_Witness ==
  \E id \in Created, other \in Created :
    /\ invoices[id].status = "Paid" /\ invoices[id].amount = 75
    /\ invoices[id].client = "client" /\ invoices[other].client = "client"
    /\ invoices[other].status = "Validated" /\ invoices[other].amount = 30
    /\ balance[platformWallet] = InitBalance
    /\ platformFeePercent = 10
    /\ \A out \in Settlements(id) :
         out.result = "ok" =>
           /\ ReleasedBy(out).fee = 7 /\ ReleasedBy(out).amount = 68
           /\ ReleasedBy(out).fee # platformFee(75, 2)
    /\ confirmPayment(id, "client", {}).result = "ok"


-----------------------------------------------------------------------------
(* C32.  The deadline moves with paymentTimeout.                             *)

\* on a Paid invoice autoReleasePayment (the recipients accepting) goes
\* through exactly when the time has reached paymentTimeStamp plus the
\* paymentTimeout of the state it executes in
C32_DeadlineFromCurrentTimeout ==
  \A id \in Created :
    invoices[id].status = "Paid" =>
      LET out == autoReleasePayment(id, {}) IN
        /\ now >= invoices[id].paymentTimeStamp + paymentTimeout =>
             out.result = "ok"
        /\ now < invoices[id].paymentTimeStamp + paymentTimeout =>
             out.result = TimeoutNotReached

\* a step that changes paymentTimeout leaves every Paid invoice, its
\* paymentTimeStamp included, as it is and moves its deadline: an invoice whose
\* deadline had passed and has not under the new timeout is refused from then
\* on, and one whose deadline had not passed and has under the new timeout is
\* released from then on
C32_TimeoutMovesDeadline ==
  \A old \in TimeoutsTried \cup LiveTimeouts :
    (old = paymentTimeout /\ paymentTimeout' # old) =>
      \A id \in Created : \A paid \in LiveTimePoints :
        (invoices[id].status = "Paid" /\ paid = invoices[id].paymentTimeStamp) =>
          /\ invoices'[id] = invoices[id]
          /\ now' = now
          /\ (now >= paid + old /\ now < paid + paymentTimeout') =>
               /\ autoReleasePayment(id, {}).result = "ok"
               /\ (autoReleasePayment(id, {}).result = TimeoutNotReached)'
          /\ (now < paid + old /\ now >= paid + paymentTimeout') =>
               /\ autoReleasePayment(id, {}).result = TimeoutNotReached
               /\ (autoReleasePayment(id, {}).result = "ok")'

\* C32: the auto-release deadline of an already-Paid invoice is
\* paymentTimeStamp plus the paymentTimeout in force when autoReleasePayment
\* executes: an owner's setPaymentTimeout after payment moves the deadline of
\* every Paid invoice, so an invoice whose deadline had passed can become
\* not-yet-releasable again and vice versa.
C32_DeadlineMoves ==
  [] C32_DeadlineFromCurrentTimeout /\ [][C32_TimeoutMovesDeadline]_vars

\* at time 8 two invoices paid at time 1 are refused under the timeout of 14
\* days, which the owner can cut to one day: they were releasable under the
\* 7 days of the constructor and are again after the cut
C32_Witness ==
  \E id \in Created, other \in Created :
    /\ id # other
    /\ invoices[id].status = "Paid" /\ invoices[id].paymentTimeStamp = 1
    /\ invoices[other].status = "Paid" /\ invoices[other].paymentTimeStamp = 1
    /\ now = 8 /\ paymentTimeout = 14 * Day
    /\ timeoutReached(now, invoices[id].paymentTimeStamp, 7 * Day)
    /\ autoReleasePayment(id, {}).result = TimeoutNotReached
    /\ autoReleasePayment(other, {}).result = TimeoutNotReached
    /\ setPaymentTimeout(owner, Day).result = "ok"
    /\ timeoutReached(now, invoices[id].paymentTimeStamp,
                      setPaymentTimeout(owner, Day).paymentTimeout)


-----------------------------------------------------------------------------
(* C33.  The fee is at most a tenth, the emitter's share at least nine.      *)

\* C33: for every successful settlement by confirmPayment or
\* autoReleasePayment in any reachable configuration, fee <=
\* floor(amount * 10 / 100) and amountToEmitter = amount - fee >= 0, so the
\* subtraction never underflows and the emitter always receives at least 90%
\* of the amount.
C33_FeeAtMostTenth ==
  /\ platformFeePercent \in 0 .. 10
  /\ \A amount \in MsgValues \cup {1, 9, 10, 99, 100, 101}, percent \in 0 .. 10 :
       /\ platformFee(amount, percent) <= platformFee(amount, 10)
       /\ amount - platformFee(amount, percent) >= 0
       /\ 100 * (amount - platformFee(amount, percent)) >= 90 * amount
  /\ \A id \in Created :
       invoices[id].status = "Paid" =>
         \A out \in Settlements(id) :
           out.result = "ok" =>
             LET amount == invoices[id].amount
                 fee == ReleasedBy(out).fee
                 amountToEmitter == ReleasedBy(out).amount
             IN /\ fee <= platformFee(amount, 10)
                /\ amountToEmitter = amount - fee
                /\ amountToEmitter >= 0
                /\ 100 * amountToEmitter >= 90 * amount
                /\ Gain(out, invoices[id].emitter) = amountToEmitter
                /\ Gain(out, platformWallet) = fee

\* with the highest fee the owner can set, an invoice of 75 is settled at the
\* limit: fee 7, the emitter receives 68; a higher fee is refused
C33_Witness ==
  \E id \in Created :
    /\ invoices[id].status = "Paid" /\ invoices[id].amount = 75
    /\ platformFeePercent = 10
    /\ setPlatformFeePercent(owner, 11).result = FeeTooHigh
    /\ now >= Deadline(id)
    /\ LET out == autoReleasePayment(id, {}) IN
         /\ out.result = "ok"
         /\ ReleasedBy(out).fee = platformFee(75, 10)
         /\ Gain(out, invoices[id].emitter) = 68


-----------------------------------------------------------------------------
(* C34.  Who writes paymentTimeStamp.                                        *)

\* C34: paymentTimeStamp is written only by a successful payInvoice (which
\* sets it to the current time): every other call, confirmPayment,
\* autoReleasePayment, disputeByClient, disputeByEmitter and resolveDispute
\* among them, and every failed payInvoice, leaves the paymentTimeStamp of
\* every invoice unchanged, so a Paid, Disputed, Released or Validated invoice
\* carries the time of a payment, not later than the current time.
C34_OnlyPayInvoiceStamps ==
  \A id \in Created :
    /\ \A a \in AttemptsOn(id) :
         /\ \A j \in InvoiceIds \ {id} :
              a.out.invoices[j].paymentTimeStamp = invoices[j].paymentTimeStamp
         /\ (a.op = "payInvoice" /\ a.out.result = "ok") =>
              a.out.invoices[id].paymentTimeStamp = now
         /\ (a.op # "payInvoice" \/ a.out.result # "ok") =>
              a.out.invoices[id].paymentTimeStamp = invoices[id].paymentTimeStamp
    /\ \A in \in CreateInputs :
         invoiceCount < MaxInvoices =>
           createInvoice(in[1], in[2], in[3]).invoices[id].paymentTimeStamp
             = invoices[id].paymentTimeStamp
    /\ invoices[id].status \in {"Paid", "Disputed", "Released", "Validated"} =>
         /\ invoices[id].paymentTimeStamp \in TimePoints
         /\ invoices[id].paymentTimeStamp <= now

\* at time 8 a Validated invoice and a Disputed one still carry the time 1 of
\* their payment, and the resolution of the dispute to the emitter keeps it
C34_Witness ==
  \E id \in Created, other \in Created :
    /\ now = 8
    /\ invoices[id].status = "Validated" /\ invoices[id].paymentTimeStamp = 1
    /\ invoices[other].status = "Disputed" /\ invoices[other].paymentTimeStamp = 1
    /\ LET out == resolveDispute(other, TRUE, arbitrator, {}) IN
         /\ out.result = "ok"
         /\ out.invoices[other].status = "Released"
         /\ out.invoices[other].paymentTimeStamp = 1


-----------------------------------------------------------------------------
(* C35.  Configuration and invoices are written by different operations.     *)

\* the fee of a settlement goes to the platform wallet of the constructor, in
\* every reachable state: no account but that wallet, the emitter and the
\* contract sees its balance move
C35_TreasuryFixed ==
  \A id \in Created :
    invoices[id].status = "Paid" =>
      \A out \in Settlements(id) :
        out.result = "ok" =>
          /\ invoices[id].emitter # platformWallet =>
               Gain(out, platformWallet) = ReleasedBy(out).fee
          /\ \A account \in Address \ {platformWallet, invoices[id].emitter} :
               Gain(out, account) = 0

\* a step changes one configuration field, the one its setter returns for the
\* owner, and nothing else, or it changes no configuration field at all
C35_OneFieldOrNone ==
  /\ arbitrator' # arbitrator =>
       /\ \E a \in NewArbitrators :
            setArbitrator(owner, a).result = "ok"
              /\ arbitrator' = setArbitrator(owner, a).arbitrator
       /\ UNCHANGED <<invoices, invoiceCount, platformFeePercent, paymentTimeout,
                      balance>>
  /\ platformFeePercent' # platformFeePercent =>
       /\ \E f \in NewFees :
            setPlatformFeePercent(owner, f).result = "ok"
              /\ platformFeePercent' = setPlatformFeePercent(owner, f).platformFeePercent
       /\ UNCHANGED <<invoices, invoiceCount, arbitrator, paymentTimeout, balance>>
  /\ paymentTimeout' # paymentTimeout =>
       /\ \E t \in NewTimeouts :
            setPaymentTimeout(owner, t).result = "ok"
              /\ paymentTimeout' = setPaymentTimeout(owner, t).paymentTimeout
       /\ UNCHANGED <<invoices, invoiceCount, arbitrator, platformFeePercent,
                      balance>>
  /\ (invoices' # invoices \/ invoiceCount' # invoiceCount \/ balance' # balance) =>
       UNCHANGED <<arbitrator, platformFeePercent, paymentTimeout>>

\* C35: configuration and invoices are disjoint: each admin operation changes
\* only its own configuration field (arbitrator, fee percent or timeout) and
\* no invoice field or balance, the platform treasury identity never changes
\* after construction, and no invoice operation changes any configuration
\* field.
C35_ConfigAndInvoicesDisjoint ==
  [] C35_TreasuryFixed /\ [][C35_OneFieldOrNone]_vars

\* the owner has replaced the arbitrator, the fee and the timeout while an
\* invoice of 75 is in escrow and another is settled: the escrow holds the 75
\* and the settlement still pays the platform wallet
C35_Witness ==
  \E id \in Created, other \in Created :
    /\ arbitrator = "owner" /\ platformFeePercent = 10 /\ paymentTimeout = Day
    /\ invoices[id].status = "Paid" /\ invoices[id].amount = 75
    /\ invoices[other].status \in Terminal
    /\ balance[This] = 75
    /\ Gain(confirmPayment(id, invoices[id].client, {}), platformWallet) = 7


-----------------------------------------------------------------------------
(* C36.  The role guard comes first.                                         *)

\* the authorization error of the operation's role guard
GuardOf(op) ==
  IF op \in {"payInvoice", "confirmPayment", "disputeByClient"} THEN OnlyClient
  ELSE IF op = "disputeByEmitter" THEN OnlyEmitter
  ELSE OnlyArbitrator

GuardedOps ==
  PartyOps \cup {"resolveDispute(true)", "resolveDispute(false)"}

\* C36: when the caller lacks the required role, payInvoice, confirmPayment,
\* disputeByClient, disputeByEmitter and resolveDispute fail with the
\* authorization error of their role guard and change nothing, whatever the
\* status of the invoice and whatever the amount sent: also when the status
\* does not permit the operation the failure is the authorization error, not
\* the state conflict, the role guard being evaluated before the status and
\* amount preconditions.
C36_RoleGuardFirst ==
  \A id \in Created : \A a \in AttemptsOn(id) :
    (a.op \in GuardedOps /\ a.sender \notin RoleOf(a.op, id)) =>
      /\ a.out.result = GuardOf(a.op)
      /\ a.out.result \in AuthorizationError
      /\ a.out.result \notin StateConflict \cup ValidationError
      /\ Untouched(a.out)
      /\ a.out.events = << >>

\* a Validated invoice of 75, which permits none of the five operations: the
\* emitter's payInvoice with 30, the emitter's confirmPayment and
\* disputeByClient, the client's disputeByEmitter and the client's
\* resolveDispute all fail on the caller, and the right callers fail on the
\* status
C36_Witness ==
  \E id \in Created :
    /\ invoices[id].status = "Validated" /\ invoices[id].amount = 75
    /\ invoices[id].client = "client" /\ invoices[id].emitter = "emitter"
    /\ arbitrator \notin {"client", "emitter"}
    /\ 30 \in Payable("emitter")
    /\ payInvoice(id, "emitter", 30).result = OnlyClient
    /\ payInvoice(id, "client", 30).result = MustBePending
    /\ confirmPayment(id, "emitter", {}).result = OnlyClient
    /\ confirmPayment(id, "client", {}).result = MustBePaid
    /\ disputeByClient(id, "emitter").result = OnlyClient
    /\ disputeByEmitter(id, "client").result = OnlyEmitter
    /\ disputeByEmitter(id, "emitter").result = MustBeInProgress
    /\ resolveDispute(id, TRUE, "client", {}).result = OnlyArbitrator
    /\ resolveDispute(id, FALSE, arbitrator, {}).result = NotInDispute


-----------------------------------------------------------------------------
(* C37.  The events of the operations.                                       *)

\* the PaymentReleased event of a settlement of the invoice in this state
Released(id) ==
  [name |-> "PaymentReleased", invoiceId |-> id,
   amount |-> invoices[id].amount
                - platformFee(invoices[id].amount, platformFeePercent),
   fee |-> platformFee(invoices[id].amount, platformFeePercent)]

\* the events a successful call of the operation on the invoice emits
EventsOf(a, id) ==
  CASE a.op = "payInvoice" ->
         << [name |-> "PaymentMade", invoiceId |-> id,
             amount |-> invoices[id].amount] >>
    [] a.op = "confirmPayment" ->
         << [name |-> "PaymentConfirmed", invoiceId |-> id], Released(id) >>
    [] a.op = "autoReleasePayment" -> << Released(id) >>
    [] a.op \in {"disputeByClient", "disputeByEmitter"} ->
         << [name |-> "PaymentDisputed", invoiceId |-> id, disputor |-> a.sender] >>
    [] a.op = "resolveDispute(true)" ->
         << [name |-> "DisputeResolved", invoiceId |-> id,
             releasedToEmitter |-> TRUE] >>
    [] a.op = "resolveDispute(false)" ->
         << [name |-> "DisputeResolved", invoiceId |-> id,
             releasedToEmitter |-> FALSE] >>

\* a failed invoice operation emits nothing and changes nothing; a successful
\* one emits the events of its row, in that order, in the outcome that carries
\* the new status; createInvoice emits InvoiceCreated for the new Pending
\* invoice
C37_InvoiceEvents ==
  /\ \A id \in Created : \A a \in AttemptsOn(id) :
       /\ a.out.result # "ok" => a.out.events = << >> /\ Untouched(a.out)
       /\ a.out.result = "ok" =>
            /\ a.out.events = EventsOf(a, id)
            /\ <<a.op, invoices[id].status, a.out.invoices[id].status>> \in Edges
  /\ \A in \in CreateInputs :
       invoiceCount < MaxInvoices =>
         LET out == createInvoice(in[1], in[2], in[3]) IN
           /\ out.events =
                << [name |-> "InvoiceCreated", invoiceId |-> invoiceCount + 1,
                    client |-> in[2], emitter |-> in[1], amount |-> in[3]] >>
           /\ out.invoices[invoiceCount + 1].status = "Pending"
           /\ out.invoices[invoiceCount + 1].invoiceId = invoiceCount + 1

\* the outcomes of the three setters, for every caller and every value tried
AdminOutcomes ==
  {setArbitrator(s, a) : s \in Address, a \in NewArbitrators}
  \cup {setPlatformFeePercent(s, f) : s \in Address, f \in FeesTried}
  \cup {setPaymentTimeout(s, t) : s \in Address, t \in TimeoutsTried}

\* C37 as stated: events are emitted only by operations that commit and only
\* after the status change: a failed operation emits nothing; a successful
\* confirmPayment emits PaymentConfirmed followed by PaymentReleased{id,
\* amountToEmitter, fee}, a successful autoReleasePayment emits only
\* PaymentReleased with the same payload shape, and each other successful
\* operation, the three setters included, emits exactly its one event.
C37_EveryOperationEmits ==
  /\ C37_InvoiceEvents
  /\ \A out \in AdminOutcomes :
       /\ out.result # "ok" => out.events = << >>
       /\ out.result = "ok" => Len(out.events) = 1

\* C37, amended: events are emitted only by operations that commit, in the
\* outcome that carries the status change: a failed operation emits nothing;
\* a successful confirmPayment emits PaymentConfirmed followed by
\* PaymentReleased{id, amountToEmitter, fee}, a successful autoReleasePayment
\* emits only PaymentReleased with the same payload, createInvoice,
\* payInvoice, disputeByClient, disputeByEmitter and resolveDispute emit
\* exactly their one event, setArbitrator emits ArbitratorChanged, and a
\* successful setPlatformFeePercent or setPaymentTimeout emits no event.
C37_Events ==
  /\ C37_InvoiceEvents
  /\ \A s \in Address :
       /\ \A a \in NewArbitrators :
            setArbitrator(s, a).events =
              IF s = owner
                THEN << [name |-> "ArbitratorChanged", newArbitrator |-> a] >>
                ELSE << >>
       /\ \A f \in FeesTried : setPlatformFeePercent(s, f).events = << >>
       /\ \A t \in TimeoutsTried : setPaymentTimeout(s, t).events = << >>

\* at 10 percent a Paid invoice of 75, past its deadline, is confirmed with
\* two events and released with one, the same PaymentReleased{68, 7}; the
\* emitter's confirmPayment emits nothing; a Disputed invoice is resolved with
\* its one event; the owner's setters succeed without an event
C37_Witness ==
  \E id \in Created, other \in Created :
    /\ invoices[id].status = "Paid" /\ invoices[id].amount = 75
    /\ platformFeePercent = 10 /\ now >= Deadline(id)
    /\ LET confirmed == confirmPayment(id, invoices[id].client, {})
           released == autoReleasePayment(id, {})
       IN /\ confirmed.result = "ok" /\ Len(confirmed.events) = 2
          /\ confirmed.events[1].name = "PaymentConfirmed"
          /\ confirmed.events[2] = released.events[1]
          /\ released.result = "ok" /\ Len(released.events) = 1
          /\ released.events[1].amount = 68 /\ released.events[1].fee = 7
    /\ confirmPayment(id, invoices[id].emitter, {}).events = << >>
    /\ invoices[other].status = "Disputed"
    /\ Len(resolveDispute(other, FALSE, arbitrator, {}).events) = 1
    /\ setPlatformFeePercent(owner, 10).result = "ok"
    /\ setPlatformFeePercent(owner, 10).events = << >>
    /\ setPaymentTimeout(owner, Day).result = "ok"
    /\ setPaymentTimeout(owner, Day).events = << >>


-----------------------------------------------------------------------------
(* The authentication store.  A second machine over the store's variables:  *)
(* its functions run to completion one at a time (JavaScript has one        *)
(* thread), and an asynchronous function gives way at each await.  The       *)
(* wallet and the backend answer as they please: every awaited request of   *)
(* the service succeeds or fails.                                            *)

\* the accounts of the wallet; the backend's user of an account has its id
UserIds == {"u1", "u2"}

\* interface User (id, is_verified; ethereum_address and is_admin are carried
\* along like is_verified)
Users == [id : UserIds, is_verified : BOOLEAN]

AuthState ==
  {"idle", "connecting", "challenging", "signing", "authenticating",
   "authenticated", "error"}

\* the messages of the service's failures, as authenticateWithEther rethrows
\* them
MetaMaskUnavailable ==
  "Authentication failed: MetaMask is not available. Please install it to continue."
WalletRefused ==
  "Authentication failed: User rejected the request. Please try again."
ChallengeFailed ==
  "Authentication failed: Failed to request challenge: Failed to request challenge: Unknown error"
SignatureRefused ==
  "Authentication failed: User rejected the signature request. Please try again."
LoginFailed ==
  "Authentication failed: Login failed: Login failed: Unknown error"

\* LoginResponse of the backend for the account
LoginResponseOf(account, verified) ==
  [access_token |-> "access_token", refresh_token |-> "refresh_token",
   user |-> [id |-> account, is_verified |-> verified]]

\* AuthService.saveAuthData
saveAuthData(loginResponse) ==
  [currentUser |-> <<loginResponse.user>>,
   accessToken |-> <<loginResponse.access_token>>,
   refreshToken |-> <<loginResponse.refresh_token>>]

\* AuthService.logout
authService_logout ==
  [currentUser |-> null, accessToken |-> null, refreshToken |-> null]

\* AuthService.getCurrentUser
getCurrentUser == authService.currentUser

\* AuthService.isAuthenticated
authService_isAuthenticated ==
  authService.currentUser # null /\ authService.accessToken # null

\* the four refs of the store
Store ==
  [user |-> user, authState |-> authState, errorMessage |-> errorMessage,
   isLoading |-> isLoading]

\* computed isAuthenticated
isAuthenticated == user # null /\ authState = "authenticated"

clearError(st) ==
  [st EXCEPT !.errorMessage = "",
             !.authState = IF @ = "error" THEN "idle" ELSE @]

\* authenticateWithEther up to its await
authenticateWithEther(st) ==
  [clearError(st) EXCEPT !.authState = "connecting", !.isLoading = TRUE]

\* authenticateWithEther after the await, the service's promise fulfilled
authenticateWithEther_fulfilled(st, authenticatedUser) ==
  [st EXCEPT !.user = <<authenticatedUser>>,
             !.authState = "authenticated",
             !.isLoading = FALSE]

\* variant: the failure leaves the user in the store
authenticateWithEther_rejectedKeepsUser(st, message) ==
  [st EXCEPT !.authState = "error",
             !.errorMessage = message,
             !.isLoading = FALSE]

\* authenticateWithEther after the await, the service's promise rejected
authenticateWithEther_rejected(st, message) ==
  [st EXCEPT !.authState = "error",
             !.errorMessage = message,
             !.user = null,
             !.isLoading = FALSE]

initializeAuth(st) ==
  LET existingUser == getCurrentUser IN
    IF existingUser # null /\ authService_isAuthenticated
      THEN [st EXCEPT !.user = existingUser, !.authState = "authenticated"]
      ELSE [st EXCEPT !.authState = "idle"]

\* logout, the store's part
logout(st) ==
  [user |-> null, authState |-> "idle", errorMessage |-> "", isLoading |-> FALSE]

resetAuthState(st) ==
  [user |-> null, authState |-> "idle", errorMessage |-> "", isLoading |-> FALSE]

updateUser(st, updatedUser) ==
  IF st.user # null /\ st.user[1].id = updatedUser.id
    THEN [st EXCEPT !.user = <<updatedUser>>]
    ELSE st

\* the store's refs take the values of st
Install(st) ==
  /\ user' = st.user
  /\ authState' = st.authState
  /\ errorMessage' = st.errorMessage
  /\ isLoading' = st.isLoading

\* the next call to be made
NextCall(c) ==
  /\ inFlight[c].pc = "idle"
  /\ \A d \in CallIds : d < c => inFlight[d].pc # "idle"

Awaiting(c, request) == [inFlight EXCEPT ![c].pc = request]

Rejecting(c, message) ==
  [inFlight EXCEPT ![c].pc = "rejected", ![c].error = message]

\* a call of authenticateWithEther: the store's part up to the await and the
\* service's up to its first await, eth_requestAccounts, or its throw when
\* there is no wallet
AuthenticateWithEther ==
  \E c \in CallIds :
    /\ NextCall(c)
    /\ Install(authenticateWithEther(Store))
    /\ \/ inFlight' = Awaiting(c, "connectWallet")
       \/ inFlight' = Rejecting(c, MetaMaskUnavailable)
    /\ loggedOut' = FALSE
    /\ UNCHANGED <<vars, authService>>

\* the wallet answers eth_requestAccounts
ConnectWallet ==
  \E c \in CallIds :
    /\ inFlight[c].pc = "connectWallet"
    /\ \/ \E account \in UserIds :
            inFlight' = [inFlight EXCEPT ![c].pc = "requestChallenge",
                                         ![c].account = account]
       \/ inFlight' = Rejecting(c, WalletRefused)
    /\ UNCHANGED <<vars, user, authState, errorMessage, isLoading, authService,
                   loggedOut>>

\* the backend answers /auth/challenge
RequestChallenge ==
  \E c \in CallIds :
    /\ inFlight[c].pc = "requestChallenge"
    /\ \/ inFlight' = Awaiting(c, "signChallengeWithMetamask")
       \/ inFlight' = Rejecting(c, ChallengeFailed)
    /\ UNCHANGED <<vars, user, authState, errorMessage, isLoading, authService,
                   loggedOut>>

\* the wallet answers personal_sign
SignChallengeWithMetamask ==
  \E c \in CallIds :
    /\ inFlight[c].pc = "signChallengeWithMetamask"
    /\ \/ inFlight' = Awaiting(c, "login")
       \/ inFlight' = Rejecting(c, SignatureRefused)
    /\ UNCHANGED <<vars, user, authState, errorMessage, isLoading, authService,
                   loggedOut>>

\* the backend answers /auth/login: the service saves the session and its
\* promise is fulfilled with the user, or it fails
Login ==
  \E c \in CallIds :
    /\ inFlight[c].pc = "login"
    /\ \/ \E verified \in BOOLEAN :
            LET loginResponse == LoginResponseOf(inFlight[c].account, verified) IN
              /\ authService' = saveAuthData(loginResponse)
              /\ inFlight' = [inFlight EXCEPT ![c].pc = "fulfilled",
                                           ![c].value = <<loginResponse.user>>]
       \/ /\ inFlight' = Rejecting(c, LoginFailed)
          /\ UNCHANGED authService
    /\ UNCHANGED <<vars, user, authState, errorMessage, isLoading, loggedOut>>

\* the call resumes after its await with the user
AuthenticateFulfilled ==
  \E c \in CallIds :
    /\ inFlight[c].pc = "fulfilled"
    /\ Install(authenticateWithEther_fulfilled(Store, inFlight[c].value[1]))
    /\ inFlight' = [inFlight EXCEPT ![c].pc = "done"]
    /\ UNCHANGED <<vars, authService, loggedOut>>

\* the call resumes after its await in its catch
AuthenticateRejected ==
  \E c \in CallIds :
    /\ inFlight[c].pc = "rejected"
    /\ Install(authenticateWithEther_rejected(Store, inFlight[c].error))
    /\ inFlight' = [inFlight EXCEPT ![c].pc = "done"]
    /\ UNCHANGED <<vars, authService, loggedOut>>

InitializeAuth ==
  /\ Install(initializeAuth(Store))
  /\ loggedOut' = FALSE
  /\ UNCHANGED <<vars, authService, inFlight>>

Logout ==
  /\ authService' = authService_logout
  /\ Install(logout(Store))
  /\ loggedOut' = TRUE
  /\ UNCHANGED <<vars, inFlight>>

ClearError ==
  /\ Install(clearError(Store))
  /\ UNCHANGED <<vars, authService, inFlight, loggedOut>>

ResetAuthState ==
  /\ Install(resetAuthState(Store))
  /\ UNCHANGED <<vars, authService, inFlight, loggedOut>>

UpdateUser ==
  \E updatedUser \in Users :
    /\ Install(updateUser(Store, updatedUser))
    /\ UNCHANGED <<vars, authService, inFlight, loggedOut>>

AuthNext ==
  \/ AuthenticateWithEther
  \/ ConnectWallet
  \/ RequestChallenge
  \/ SignChallengeWithMetamask
  \/ Login
  \/ AuthenticateFulfilled
  \/ AuthenticateRejected
  \/ InitializeAuth
  \/ Logout
  \/ ClearError
  \/ ResetAuthState
  \/ UpdateUser

AuthSpec == Init /\ [][AuthNext]_allVars

AuthTypeOK ==
  /\ user \in {null} \cup {<<u>> : u \in Users}
  /\ authState \in AuthState
  /\ isLoading \in BOOLEAN
  /\ authService.currentUser \in {null} \cup {<<u>> : u \in Users}


-----------------------------------------------------------------------------
(* C38.  After logout.                                                       *)

\* C38: in the frontend auth store, after logout() completes the store stays
\* unauthenticated (user null, authState not 'authenticated') until a new
\* authenticateWithEther or initializeAuth call is started; an
\* authenticateWithEther call already in flight when logout ran cannot
\* re-authenticate the store when its promise later resolves.
C38_LogoutSticks ==
  loggedOut => user = null /\ authState # "authenticated"

-----------------------------------------------------------------------------
(* C39.  authState and user agree.                                           *)

\* C39: in every reachable state of the frontend auth store, under any
\* interleaving of authenticateWithEther, initializeAuth, logout, clearError,
\* resetAuthState and updateUser, authState = 'authenticated' implies user is
\* non-null, and authState = 'error' implies user is null.
C39_StateMatchesUser ==
  /\ authState = "authenticated" => user # null /\ isAuthenticated
  /\ authState = "error" => user = null /\ ~ isAuthenticated

\* two calls interleaved: the first has logged in at the service and waits to
\* resume, the second has failed and left the store in error, without a user,
\* while the service holds the first call's session
C39_Witness ==
  \E c \in CallIds, d \in CallIds :
    /\ inFlight[c].pc = "fulfilled" /\ inFlight[d].pc = "done"
    /\ inFlight[d].error = SignatureRefused
    /\ authState = "error" /\ errorMessage = SignatureRefused /\ user = null
    /\ authService_isAuthenticated
    /\ authenticateWithEther_fulfilled(Store, inFlight[c].value[1]).authState
         = "authenticated"
    /\ authenticateWithEther_fulfilled(Store, inFlight[c].value[1]).user # null

====
